---- MODULE Spec2Model ----
(***************************************************************************)
(* LumeScope ingestion and enrichment engine.                              *)
(*                                                                         *)
(* Spec        : the supernodes table under its two writers, the chain     *)
(*               sync and the prober, in every interleaving.               *)
(* SpecTrigger : the single-flight manual trigger, its HTTP handler and    *)
(*               the goroutine of an accepted run; SpecTriggerFair adds    *)
(*               the scheduling the Go runtime provides.                   *)
(* SpecEnrich  : the action-transaction enricher, the action_transactions  *)
(*               table and the action read handlers.                       *)
(***************************************************************************)
EXTENDS Integers, Sequences, FiniteSets, TLC

VARIABLES
    supernodes,         \* table supernodes: account -> row
    validatorMonikers,  \* Runner.validatorMonikers (Null = nil map)
    syncRunning,        \* Runner.syncRunning
    syncMu,             \* Runner.syncMu: "free" or the handler holding it
    pc,                 \* position of every goroutine
    queue,              \* per goroutine: records fetched / targets listed, not yet handled
    obs,                \* per prober: the probe update assembled, not yet written
    httpStatus,         \* per handler: status of its response (0 = none yet)
    clock,              \* time.Now()
    chainHeight,        \* the chain's tip as seen through its REST view
    failedWrites,       \* history: failed probe writes per account since the last successful one
    lastOkVersion,      \* history: last non-empty version a successful probe write carried
    lastOkObserved,     \* history: version carried by the last successful probe write
    actions,            \* table actions: actionID -> row
    action_transactions,\* table action_transactions: <<actionID, txType>> -> row
    actionModuleAddr,   \* lumera.Client.actionModuleAddr, "" until fetched
    epc,                \* position of the enricher goroutine
    minID,              \* runActionTxEnricher: minID
    batch,              \* runActionTxEnricher: actions of the current batch not yet processed
    batchLen,           \* runActionTxEnricher: len(actions) of the current batch
    passes,             \* history: enricher passes completed
    firstPassInput,     \* history: chain tip and actions known when the first pass began
    rowsAfterFirst,     \* history: action_transactions at the end of the first pass
    perturbed,          \* history: a request or a statement of the enricher has failed
    response,           \* the last API response written by an action handler
    fnIn,               \* input handed to a helper under test (Null = none yet)
    fnOut,              \* what the helper returned for fnIn
    syncLog,            \* history: the last chain-sync write (Null = none yet)
    cancelled,          \* the root context handed to Runner.Start is cancelled
    loop,               \* per loop goroutine: where it stands in its for loop
    ticks,              \* per loop: the tick buffered in its ticker's channel
                        \* (Null = none), noted with when it was sent
    drained,            \* history: drainTicker has thrown a tick away
    moduleAddrFetched,  \* lumera.Client.moduleAddrFetched
    lookups,            \* history: calls of GetActionModuleAccount observed
    requests,           \* history: module-account requests those calls sent
    firstAddr,          \* history: the address of the first successful lookup
    reqCtx,             \* per manual goroutine: the request context it was handed
                        \* ("none" while it is not running)
    building,           \* syncValidators of loopValidators: its local map and the
                        \* page it fetches next (Null = no call in progress)
    prevMonikers,       \* the map Runner.validatorMonikers held before the last store
    unsynced,           \* Runner.validatorMonikers was stored by loopValidators, with
                        \* nothing that orders the store before its readers
    apage               \* syncActions: the actions of the page it has fetched and not
                        \* yet handled (Null = no pass in progress)

svars == <<supernodes, validatorMonikers, syncRunning, syncMu, pc, queue, obs,
           httpStatus, clock, chainHeight, failedWrites, lastOkVersion,
           lastOkObserved>>
evars == <<actions, action_transactions, actionModuleAddr, epc, minID, batch,
           batchLen, passes, firstPassInput, rowsAfterFirst, perturbed, response>>
fvars == <<fnIn, fnOut>>
hvars == <<syncLog>>
lvars == <<cancelled, loop, ticks, drained>>
cvars == <<moduleAddrFetched, lookups, requests, firstAddr>>
rvars == <<reqCtx>>
mvars == <<building, prevMonikers, unsynced, apage>>
xvars == <<fvars, hvars, lvars, cvars, rvars, mvars>>
vars == <<svars, evars, xvars>>

----------------------------------------------------------------------------
(* Bounds of the model *)

MaxClock == 1        \* time.Now() takes the values 0..MaxClock
MaxFailed == 2       \* consecutive failed probes the environment produces
MaxChainHeight == 2  \* chain tips 0..MaxChainHeight
MaxActions == 3      \* actions 1..MaxActions
MaxPasses == 2       \* passes the enricher makes
MaxHistory == 3      \* entries of a state history or an IP history
batchSize == 2       \* runActionTxEnricher's batchSize (50), scaled to MaxActions

----------------------------------------------------------------------------
(* SQL and Go values *)

Null == <<>>                       \* SQL NULL, Go nil pointer, nil interface
Some(v) == <<v>>
COALESCE(a, b) == IF a # Null THEN a ELSE b
NULLIF(s, t) == IF s = t THEN Null ELSE Some(s)

Accounts == {"sn1", "sn2"}

(* strconv.ParseInt / strconv.Atoi on the numeric strings the chain serves *)
ParseInt(s) ==
    CASE s = "5" -> [ok |-> TRUE, v |-> 5]
      [] s = "10" -> [ok |-> TRUE, v |-> 10]
      [] s = "20" -> [ok |-> TRUE, v |-> 20]
      [] s = "0" -> [ok |-> TRUE, v |-> 0]
      [] s = "4444" -> [ok |-> TRUE, v |-> 4444]
      [] s = "4445" -> [ok |-> TRUE, v |-> 4445]
      [] s = "-1" -> [ok |-> TRUE, v |-> -1]
      [] OTHER -> [ok |-> FALSE, v |-> 0]

----------------------------------------------------------------------------
(* The chain's REST view of validators and supernodes at tip h *)

ChainValidators(h) ==
    IF h = 0 THEN <<[operator_address |-> "val1", moniker |-> "alice"]>>
    ELSE <<[operator_address |-> "val1", moniker |-> IF h < 2 THEN "alice" ELSE "alicia"],
           [operator_address |-> "val2", moniker |-> ""]>>

ChainSupernode(a, h) ==
    IF a = "sn1" THEN
        [supernode_account |-> "sn1",
         validator_address |-> "val1",
         states |-> IF h < 2 THEN <<[state |-> "SUPERNODE_STATE_ACTIVE", height |-> "10"]>>
                    ELSE <<[state |-> "SUPERNODE_STATE_ACTIVE", height |-> "10"],
                           [state |-> "SUPERNODE_STATE_STOPPED", height |-> "20"]>>,
         evidence |-> <<>>,
         prev_ip_addresses |-> <<[address |-> "10.0.0.1:4444", height |-> "5"]>>,
         note |-> "",
         metrics |-> [metrics |-> Null,
                      report_count |-> IF h < 2 THEN "0" ELSE "5",
                      height |-> ""],
         p2p_port |-> "4445"]
    ELSE
        [supernode_account |-> a,
         validator_address |-> "val2",
         states |-> <<[state |-> "SUPERNODE_STATE_DISABLED", height |-> "5"]>>,
         evidence |-> <<>>,
         prev_ip_addresses |-> IF h < 2 THEN <<>>
                               ELSE <<[address |-> "localhost:4444", height |-> "20"]>>,
         note |-> "2.0.0",
         metrics |-> [metrics |-> Null, report_count |-> "0", height |-> ""],
         p2p_port |-> ""]

(* GetSupernodes: one page holds every registered supernode (limit 200) *)
ChainSupernodes(h) ==
    <<ChainSupernode("sn1", h), ChainSupernode("sn2", h)>>

----------------------------------------------------------------------------
(* Helpers of the scheduler *)

RECURSIVE MaxHeightIdx(_, _, _, _)
(* the loop of latestState / latestIPAddress: index of the entry with the
   greatest parsed height, from index i on *)
MaxHeightIdx(entries, i, maxIdx, maxHeight) ==
    IF i > Len(entries) THEN maxIdx
    ELSE LET h == ParseInt(entries[i].height)
         IN IF h.ok /\ h.v > maxHeight
            THEN MaxHeightIdx(entries, i + 1, i, h.v)
            ELSE MaxHeightIdx(entries, i + 1, maxIdx, maxHeight)

latestState(states) ==
    IF Len(states) = 0 THEN <<"SUPERNODE_STATE_UNKNOWN", "">>
    ELSE LET m == MaxHeightIdx(states, 1, 1, 0)
         IN <<states[m].state, states[m].height>>

latestIPAddress(addresses) ==
    IF Len(addresses) = 0 THEN ""
    ELSE addresses[MaxHeightIdx(addresses, 1, 1, 0)].address

parseP2PPort(s) == IF s = "" THEN 0 ELSE ParseInt(s).v

chooseProtocol(note) == IF note = "" THEN "1.0.0" ELSE note

(* toJSONB: nil interface -> SQL NULL, anything else -> its JSON document *)
toJSONB(v) == IF v = Null THEN Null ELSE Some(v[1])

getMonikerFor(monikers, valoper) ==
    IF monikers = Null THEN ""
    ELSE IF valoper \in DOMAIN monikers[1] THEN monikers[1][valoper] ELSE ""

(* the db.SupernodeDB record syncSupernodes builds for one chain supernode;
   the fields it does not set keep Go's zero values *)
SupernodeRec(sn, monikers) ==
    LET st == latestState(sn.states)
    IN [SupernodeAccount |-> sn.supernode_account,
        ValidatorAddress |-> sn.validator_address,
        ValidatorMoniker |-> getMonikerFor(monikers, sn.validator_address),
        CurrentState |-> st[1],
        CurrentStateHeight |-> st[2],
        IPAddress |-> latestIPAddress(sn.prev_ip_addresses),
        P2PPort |-> parseP2PPort(sn.p2p_port),
        ProtocolVersion |-> chooseProtocol(sn.note),
        PrevIPAddresses |-> toJSONB(Some(sn.prev_ip_addresses)),
        Evidence |-> toJSONB(Some(sn.evidence)),
        StateHistory |-> toJSONB(Some(sn.states)),
        MetricsReport |-> toJSONB(Some(sn.metrics)),
        ActualVersion |-> "",
        CPUUsagePercent |-> Null, CPUCores |-> Null,
        MemoryTotalGb |-> Null, MemoryUsedGb |-> Null, MemoryUsagePercent |-> Null,
        StorageTotalBytes |-> Null, StorageUsedBytes |-> Null,
        StorageUsagePercent |-> Null,
        HardwareSummary |-> Null, PeersCount |-> Null, UptimeSeconds |-> Null,
        Rank |-> Null, RegisteredServices |-> Null, RunningTasks |-> Null,
        LastStatusCheck |-> Null, IsStatusAPIAvailable |-> FALSE]

----------------------------------------------------------------------------
(* Persistence layer: the supernodes table *)

ChainColumns == {"validatorAddress", "validatorMoniker", "currentState",
                 "currentStateHeight", "ipAddress", "p2pPort", "protocolVersion",
                 "stateHistory", "evidence", "prevIpAddresses"}

ProbeColumns == {"actualVersion", "cpuUsagePercent", "cpuCores", "memoryTotalGb",
                 "memoryUsedGb", "memoryUsagePercent", "storageTotalBytes",
                 "storageUsedBytes", "storageUsagePercent", "hardwareSummary",
                 "peersCount", "uptimeSeconds", "rank", "lastStatusCheck",
                 "lastSuccessfulProbe", "failedProbeCounter",
                 "lastKnownActualVersion", "isStatusApiAvailable", "metricsReport"}

(* the row an INSERT of sn creates; columns outside the INSERT list take
   their defaults *)
InsertedRow(sn) ==
    [validatorAddress |-> Some(sn.ValidatorAddress),
     validatorMoniker |-> Some(sn.ValidatorMoniker),
     currentState |-> sn.CurrentState,
     currentStateHeight |-> Some(sn.CurrentStateHeight),
     ipAddress |-> Some(sn.IPAddress),
     p2pPort |-> Some(sn.P2PPort),
     protocolVersion |-> sn.ProtocolVersion,
     actualVersion |-> Some(sn.ActualVersion),
     cpuUsagePercent |-> sn.CPUUsagePercent,
     cpuCores |-> sn.CPUCores,
     memoryTotalGb |-> sn.MemoryTotalGb,
     memoryUsedGb |-> sn.MemoryUsedGb,
     memoryUsagePercent |-> sn.MemoryUsagePercent,
     storageTotalBytes |-> sn.StorageTotalBytes,
     storageUsedBytes |-> sn.StorageUsedBytes,
     storageUsagePercent |-> sn.StorageUsagePercent,
     hardwareSummary |-> sn.HardwareSummary,
     peersCount |-> sn.PeersCount,
     uptimeSeconds |-> sn.UptimeSeconds,
     rank |-> sn.Rank,
     registeredServices |-> sn.RegisteredServices,
     runningTasks |-> sn.RunningTasks,
     stateHistory |-> sn.StateHistory,
     evidence |-> sn.Evidence,
     prevIpAddresses |-> sn.PrevIPAddresses,
     lastStatusCheck |-> sn.LastStatusCheck,
     isStatusApiAvailable |-> sn.IsStatusAPIAvailable,
     metricsReport |-> sn.MetricsReport,
     lastSuccessfulProbe |-> Null,
     failedProbeCounter |-> 0,
     lastKnownActualVersion |-> Null]

(* faulty variant: the moniker is overwritten like every other chain column *)
ConflictUpdate_plainMoniker(old, sn) ==
    [old EXCEPT
       !.validatorAddress = Some(sn.ValidatorAddress),
       !.validatorMoniker = Some(sn.ValidatorMoniker),
       !.currentState = sn.CurrentState,
       !.currentStateHeight = Some(sn.CurrentStateHeight),
       !.ipAddress = Some(sn.IPAddress),
       !.p2pPort = Some(sn.P2PPort),
       !.protocolVersion = sn.ProtocolVersion,
       !.stateHistory = sn.StateHistory,
       !.evidence = sn.Evidence,
       !.prevIpAddresses = sn.PrevIPAddresses,
       !.metricsReport = COALESCE(sn.MetricsReport, old.metricsReport),
       !.registeredServices = COALESCE(sn.RegisteredServices, old.registeredServices),
       !.runningTasks = COALESCE(sn.RunningTasks, old.runningTasks)]

(* the ON CONFLICT ("supernodeAccount") DO UPDATE SET list *)
ConflictUpdate(old, sn) ==
    [old EXCEPT
       !.validatorAddress = Some(sn.ValidatorAddress),
       !.validatorMoniker = COALESCE(NULLIF(sn.ValidatorMoniker, ""), old.validatorMoniker),
       !.currentState = sn.CurrentState,
       !.currentStateHeight = Some(sn.CurrentStateHeight),
       !.ipAddress = Some(sn.IPAddress),
       !.p2pPort = Some(sn.P2PPort),
       !.protocolVersion = sn.ProtocolVersion,
       !.stateHistory = sn.StateHistory,
       !.evidence = sn.Evidence,
       !.prevIpAddresses = sn.PrevIPAddresses,
       !.metricsReport = COALESCE(sn.MetricsReport, old.metricsReport),
       !.registeredServices = COALESCE(sn.RegisteredServices, old.registeredServices),
       !.runningTasks = COALESCE(sn.RunningTasks, old.runningTasks)]

(* the table after UpsertSupernode(sn) *)
UpsertSupernode(tbl, sn) ==
    LET a == sn.SupernodeAccount
    IN IF a \in DOMAIN tbl
       THEN [tbl EXCEPT ![a] = ConflictUpdate(tbl[a], sn)]
       ELSE [b \in DOMAIN tbl \cup {a} |-> IF b = a THEN InsertedRow(sn) ELSE tbl[b]]

(* fetchStatus: what a probe can learn from the status API *)
UnavailableStatus ==
    [Available |-> FALSE, Version |-> "", UptimeSeconds |-> 0, CPUUsagePercent |-> 0,
     CPUCores |-> 0, MemoryTotalGb |-> 0, MemoryUsedGb |-> 0, MemoryUsagePercent |-> 0,
     StorageTotalBytes |-> 0, StorageUsedBytes |-> 0, StorageUsagePercent |-> 0,
     HardwareSummary |-> "", PeersCount |-> 0, Rank |-> 0]

AvailableStatus(version) ==
    [Available |-> TRUE, Version |-> version, UptimeSeconds |-> 3600,
     CPUUsagePercent |-> 25, CPUCores |-> IF version = "v2" THEN 8 ELSE 4,
     MemoryTotalGb |-> 16, MemoryUsedGb |-> 8, MemoryUsagePercent |-> 50,
     StorageTotalBytes |-> 1000, StorageUsedBytes |-> 400, StorageUsagePercent |-> 40,
     HardwareSummary |-> "4 cores / 16GB", PeersCount |-> 7, Rank |-> 1]

Versions == {"", "v1", "v2"}
fetchStatus == {UnavailableStatus} \cup {AvailableStatus(v) : v \in Versions}

(* A Go string that is inspected byte by byte is the sequence of its bytes,
   each written as a one-character string. *)
DigitChars == {"0", "1", "2", "3", "4", "5", "6", "7", "8", "9"}

Letters ==
    {"a", "b", "c", "d", "e", "f", "g", "h", "i", "j", "k", "l", "m",
     "n", "o", "p", "q", "r", "s", "t", "u", "v", "w", "x", "y", "z",
     "A", "B", "C", "D", "E", "F", "G", "H", "I", "J", "K", "L", "M",
     "N", "O", "P", "Q", "R", "S", "T", "U", "V", "W", "X", "Y", "Z"}

HexChars == DigitChars \cup {"a", "b", "c", "d", "e", "f", "A", "B", "C", "D", "E", "F"}

DigitValue(c) ==
    CASE c = "0" -> 0 [] c = "1" -> 1 [] c = "2" -> 2 [] c = "3" -> 3 [] c = "4" -> 4
      [] c = "5" -> 5 [] c = "6" -> 6 [] c = "7" -> 7 [] c = "8" -> 8 [] c = "9" -> 9

RECURSIVE Split(_, _)
(* strings.Split of a byte sequence at every sep *)
Split(s, sep) ==
    LET at == {i \in 1..Len(s) : s[i] = sep}
    IN IF at = {} THEN <<s>>
       ELSE LET i == CHOOSE n \in at : \A m \in at : n <= m
            IN <<SubSeq(s, 1, i - 1)>> \o Split(SubSeq(s, i + 1, Len(s)), sep)

(* net.ParseIP, dotted-quad form: four decimal fields 0..255, no leading zero *)
ParseIPv4(s) ==
    /\ \A i \in 1..Len(s) : s[i] \in DigitChars \cup {"."}
    /\ LET f == Split(s, ".")
       IN /\ Len(f) = 4
          /\ \A k \in 1..4 :
                /\ Len(f[k]) \in 1..3
                /\ Len(f[k]) > 1 => f[k][1] # "0"
                /\ (IF Len(f[k]) = 3
                    THEN 100 * DigitValue(f[k][1]) + 10 * DigitValue(f[k][2])
                         + DigitValue(f[k][3])
                    ELSE 0) <= 255

(* a run of 16-bit groups: one to four hex digits each, colons between *)
HexGroups(s) ==
    LET g == Split(s, ":")
    IN IF \A k \in 1..Len(g) : Len(g[k]) \in 1..4 THEN Len(g) ELSE 9

(* net.ParseIP, colon form without an embedded dotted quad: eight groups, or
   fewer with one "::" that stands for at least one group *)
ParseIPv6(s) ==
    /\ \A i \in 1..Len(s) : s[i] \in HexChars \cup {":"}
    /\ LET ell == {i \in 1..(Len(s) - 1) : s[i] = ":" /\ s[i + 1] = ":"}
       IN IF ell = {} THEN HexGroups(s) = 8
          ELSE /\ Cardinality(ell) = 1
               /\ LET p == CHOOSE i \in ell : TRUE
                      left == SubSeq(s, 1, p - 1)
                      right == SubSeq(s, p + 2, Len(s))
                  IN (IF left = <<>> THEN 0 ELSE HexGroups(left))
                     + (IF right = <<>> THEN 0 ELSE HexGroups(right)) <= 7

(* net.ParseIP(host) != nil *)
ParseIP(s) == ParseIPv4(s) \/ ParseIPv6(s)

(* the loop of isValidHost returns false at byte i: a byte that is no letter,
   digit, dot or hyphen, a dot or a hyphen at either end, or a dot after the
   previous byte prevChar = host[i - 1] was a dot *)
Rejected(host, i) ==
    LET r == host[i]
    IN IF r \in Letters THEN FALSE
       ELSE IF r = "." THEN i = 1 \/ i = Len(host) \/ host[i - 1] = "."
       ELSE IF r \in DigitChars THEN FALSE
       ELSE IF r = "-" THEN i = 1 \/ i = Len(host)
       ELSE TRUE

(* the loop of isValidHost over the bytes of host: whether it ran to the end,
   and hasLetter and hasDot as it leaves them *)
HostScan(host) ==
    [done |-> \A i \in 1..Len(host) : ~Rejected(host, i),
     hasLetter |-> \E i \in 1..Len(host) : host[i] \in Letters,
     hasDot |-> \E i \in 1..Len(host) : host[i] = "."]

(* faulty variant: a single label is enough *)
isValidHost_singleLabel(host) ==
    IF ParseIP(host) THEN TRUE
    ELSE IF Len(host) = 0 \/ Len(host) > 253 THEN FALSE
    ELSE HostScan(host).done /\ HostScan(host).hasLetter

isValidHost(host) ==
    IF ParseIP(host) THEN TRUE
    ELSE IF Len(host) = 0 \/ Len(host) > 253 THEN FALSE
    ELSE /\ HostScan(host).done
         /\ HostScan(host).hasLetter /\ HostScan(host).hasDot

(* the endpoints a supernode can have registered on the chain *)
Endpoints == {"", " ", "10.0.0.1", "10.0.0.1:0", "10.0.0.1:x", "bad_host.io:4444",
              "localhost:4444", "10.0.0.1:4444", " 10.0.0.1:4444"}

(* the bytes of the hosts of Endpoints *)
Bytes(host) ==
    CASE host = "10.0.0.1" -> <<"1", "0", ".", "0", ".", "0", ".", "1">>
      [] host = "localhost" -> <<"l", "o", "c", "a", "l", "h", "o", "s", "t">>
      [] host = "bad_host.io" -> <<"b", "a", "d", "_", "h", "o", "s", "t", ".", "i", "o">>
      [] OTHER -> <<>>

(* strings.TrimSpace on Endpoints *)
TrimSpace(s) ==
    CASE s = " " -> ""
      [] s = " 10.0.0.1:4444" -> "10.0.0.1:4444"
      [] OTHER -> s

(* net.SplitHostPort on Endpoints, trimmed: an address without a colon has
   no port *)
SplitHostPort(ip) ==
    CASE ip = "10.0.0.1:4444" -> [ok |-> TRUE, host |-> "10.0.0.1", port |-> "4444"]
      [] ip = "localhost:4444" -> [ok |-> TRUE, host |-> "localhost", port |-> "4444"]
      [] ip = "10.0.0.1:0" -> [ok |-> TRUE, host |-> "10.0.0.1", port |-> "0"]
      [] ip = "10.0.0.1:x" -> [ok |-> TRUE, host |-> "10.0.0.1", port |-> "x"]
      [] ip = "bad_host.io:4444" -> [ok |-> TRUE, host |-> "bad_host.io", port |-> "4444"]
      [] OTHER -> [ok |-> FALSE, host |-> "", port |-> ""]

(* the hosts of Endpoints that isValidHost accepts *)
ValidHosts ==
    {host \in {"10.0.0.1", "localhost", "bad_host.io"} : isValidHost(Bytes(host))}

(* faulty variant: the port is not looked at *)
ProbeTargetOK_anyPort(t) ==
    /\ t.IPAddress # ""
    /\ SplitHostPort(TrimSpace(t.IPAddress)).ok
    /\ SplitHostPort(TrimSpace(t.IPAddress)).host \in ValidHosts

(* the checks of probeSupernodes that make it skip a target *)
ProbeTargetOK(t) ==
    /\ t.IPAddress # ""
    /\ SplitHostPort(TrimSpace(t.IPAddress)).ok
    /\ LET port1 == ParseInt(TrimSpace(SplitHostPort(TrimSpace(t.IPAddress)).port))
       IN port1.ok /\ port1.v # 0
    /\ TrimSpace(SplitHostPort(TrimSpace(t.IPAddress)).host) \in ValidHosts

(* the db.SupernodeProbeUpdate probeSupernodes assembles for target t *)
ProbeUpdate(t, openPort1, openP2P, status, now) ==
    [SupernodeAccount |-> t.SupernodeAccount,
     MetricsReport |->
        toJSONB(Some([ports |-> [port1 |-> openPort1,
                                 port1Num |->
                                   ParseInt(TrimSpace(SplitHostPort(TrimSpace(t.IPAddress)).port)).v,
                                 p2p |-> openP2P,
                                 p2pPort |-> IF t.P2PPort = 0 THEN 4445 ELSE t.P2PPort],
                      status |-> status])),
     ActualVersion |-> status.Version,
     UptimeSeconds |-> Some(status.UptimeSeconds),
     CPUUsagePercent |-> Some(status.CPUUsagePercent),
     CPUCores |-> Some(status.CPUCores),
     MemoryTotalGb |-> Some(status.MemoryTotalGb),
     MemoryUsedGb |-> Some(status.MemoryUsedGb),
     MemoryUsagePercent |-> Some(status.MemoryUsagePercent),
     StorageTotalBytes |-> Some(status.StorageTotalBytes),
     StorageUsedBytes |-> Some(status.StorageUsedBytes),
     StorageUsagePercent |-> Some(status.StorageUsagePercent),
     HardwareSummary |-> Some(status.HardwareSummary),
     PeersCount |-> Some(status.PeersCount),
     Rank |-> Some(status.Rank),
     LastStatusCheck |-> Some(now),
     IsStatusAPIAvailable |-> status.Available,
     ProbeTimeUTC |-> now]

(* the SET list both branches of UpdateSupernodeProbeData share *)
ProbeMetricsUpdate(old, u) ==
    [old EXCEPT
       !.actualVersion = COALESCE(NULLIF(u.ActualVersion, ""), old.actualVersion),
       !.cpuUsagePercent = u.CPUUsagePercent,
       !.cpuCores = u.CPUCores,
       !.memoryTotalGb = u.MemoryTotalGb,
       !.memoryUsedGb = u.MemoryUsedGb,
       !.memoryUsagePercent = u.MemoryUsagePercent,
       !.storageTotalBytes = u.StorageTotalBytes,
       !.storageUsedBytes = u.StorageUsedBytes,
       !.storageUsagePercent = u.StorageUsagePercent,
       !.hardwareSummary = u.HardwareSummary,
       !.peersCount = u.PeersCount,
       !.uptimeSeconds = u.UptimeSeconds,
       !.rank = u.Rank,
       !.lastStatusCheck = u.LastStatusCheck,
       !.isStatusApiAvailable = u.IsStatusAPIAvailable,
       !.metricsReport = u.MetricsReport]

(* faulty variant of the successful branch: the counter is not reset *)
ProbeSuccessUpdate_noReset(old, u) ==
    [ProbeMetricsUpdate(old, u) EXCEPT
       !.lastSuccessfulProbe = Some(u.ProbeTimeUTC),
       !.lastKnownActualVersion =
            COALESCE(NULLIF(u.ActualVersion, ""), old.lastKnownActualVersion)]

(* faulty variant of the successful branch: the version is stored as it
   comes, an empty one included *)
ProbeSuccessUpdate_rawVersion(old, u) ==
    [ProbeMetricsUpdate(old, u) EXCEPT
       !.lastSuccessfulProbe = Some(u.ProbeTimeUTC),
       !.failedProbeCounter = 0,
       !.lastKnownActualVersion = Some(u.ActualVersion)]

(* the UPDATE of the successful branch *)
ProbeSuccessUpdate(old, u) ==
    [ProbeMetricsUpdate(old, u) EXCEPT
       !.lastSuccessfulProbe = Some(u.ProbeTimeUTC),
       !.failedProbeCounter = 0,
       !.lastKnownActualVersion =
            COALESCE(NULLIF(u.ActualVersion, ""), old.lastKnownActualVersion)]

(* faulty variant of the failed branch: a read-modify-write that restarts
   from one instead of adding to the stored value *)
ProbeFailureUpdate_setOne(old, u) ==
    [ProbeMetricsUpdate(old, u) EXCEPT !.failedProbeCounter = 1]

(* faulty variant of the failed branch: the columns of the status summary
   are left as the last successful probe wrote them *)
ProbeFailureUpdate_keepMetrics(old, u) ==
    [old EXCEPT
       !.lastStatusCheck = u.LastStatusCheck,
       !.isStatusApiAvailable = u.IsStatusAPIAvailable,
       !.metricsReport = u.MetricsReport,
       !.failedProbeCounter = old.failedProbeCounter + 1]

(* the UPDATE of the failed branch *)
ProbeFailureUpdate(old, u) ==
    [ProbeMetricsUpdate(old, u) EXCEPT
       !.failedProbeCounter = old.failedProbeCounter + 1]

(* faulty variant: the probe result is written through an upsert of a record
   that carries no chain data, so the chain-owned columns take zero values *)
UpdateSupernodeProbeData_viaUpsert(tbl, u) ==
    LET a == u.SupernodeAccount
        blank == [validatorAddress |-> Some(""), validatorMoniker |-> Some(""),
                  currentState |-> "", currentStateHeight |-> Some(""),
                  ipAddress |-> Some(""), p2pPort |-> Some(0), protocolVersion |-> "",
                  stateHistory |-> Null, evidence |-> Null, prevIpAddresses |-> Null]
        written(old) == [c \in DOMAIN old |->
                            IF c \in DOMAIN blank THEN blank[c]
                            ELSE ProbeMetricsUpdate(old, u)[c]]
    IN IF a \in DOMAIN tbl THEN [tbl EXCEPT ![a] = written(tbl[a])] ELSE tbl

(* the table after UpdateSupernodeProbeData(u): an UPDATE ... WHERE, which
   changes nothing when no row has the account *)
UpdateSupernodeProbeData(tbl, u) ==
    LET a == u.SupernodeAccount
    IN IF a \notin DOMAIN tbl THEN tbl
       ELSE IF u.IsStatusAPIAvailable
            THEN [tbl EXCEPT ![a] = ProbeSuccessUpdate(tbl[a], u)]
            ELSE [tbl EXCEPT ![a] = ProbeFailureUpdate(tbl[a], u)]

RECURSIVE SeqOfSet(_)
SeqOfSet(S) ==
    IF S = {} THEN <<>>
    ELSE LET x == CHOOSE y \in S : TRUE IN <<x>> \o SeqOfSet(S \ {x})

(* ListKnownSupernodes: account, endpoint and P2P port of every row *)
ListKnownSupernodes(tbl) ==
    LET accts == SeqOfSet(DOMAIN tbl)
    IN [i \in 1..Len(accts) |->
          [SupernodeAccount |-> accts[i],
           IPAddress |-> tbl[accts[i]].ipAddress[1],
           P2PPort |-> tbl[accts[i]].p2pPort[1]]]

----------------------------------------------------------------------------
(* Goroutines *)

Handlers == {"h1", "h2"}          \* requests POST /v1/supernodes/sync being served
Manual == {"m1", "m2"}            \* goroutines TriggerSyncAndProbe can start
Syncers == {"loopSupernodes"} \cup Manual
Probers == {"loopProbes"} \cup Manual
Procs == {"main", "loopValidators", "loopSupernodes", "loopProbes"} \cup Manual \cup Handlers

RunsInFlight == {m \in Manual : pc[m] # "none"}

(* the context goroutine p works with is not cancelled.  A manual run works
   with the context of the request that started it; the loops work with the
   root context, whose cancellation SpecLoops covers. *)
CtxLive(p) == p \in Manual => reqCtx[p] # "cancelled"

(* where a goroutine goes when its syncSupernodes call returns *)
AfterSync(p) == IF p \in Manual THEN "list" ELSE "wait"
(* where a goroutine goes when its probeSupernodes call returns *)
AfterProbe(p) == IF p \in Manual THEN "defer" ELSE "wait"

(* the map syncValidators builds from the validators the chain lists *)
MonikerMap(vals) ==
    [a \in {vals[j].operator_address : j \in 1..Len(vals)} |->
        vals[CHOOSE j \in 1..Len(vals) :
                /\ vals[j].operator_address = a
                /\ \A k \in (j+1)..Len(vals) : vals[k].operator_address # a].moniker]

(* Runner.validatorMonikers after syncValidators: replaced on success, kept
   when a page request fails *)
syncValidators(monikers, h, ok) ==
    IF ok THEN Some(MonikerMap(ChainValidators(h))) ELSE monikers

(* Runner.Start: the initial syncValidators, then the loops are spawned *)
Start(ok) ==
    /\ pc["main"] = "new"
    /\ validatorMonikers' = syncValidators(validatorMonikers, chainHeight, ok)
    /\ pc' = [pc EXCEPT !["main"] = "serving", !["loopValidators"] = "run",
                        !["loopSupernodes"] = "fetch", !["loopProbes"] = "list"]
    /\ UNCHANGED <<supernodes, syncRunning, syncMu, queue, obs, httpStatus, clock,
                   chainHeight, failedWrites, lastOkVersion, lastOkObserved, evars, xvars>>

(* syncSupernodes: GetSupernodes returns the page, or fails and the pass ends *)
FetchSupernodes(p, ok) ==
    /\ p \in Syncers
    /\ pc[p] = "fetch"
    /\ ok => CtxLive(p)
    /\ LET sns == IF ok THEN ChainSupernodes(chainHeight) ELSE <<>>
       IN /\ queue' = [queue EXCEPT ![p] = sns]
          /\ pc' = [pc EXCEPT ![p] = IF sns = <<>> THEN AfterSync(p) ELSE "write"]
    /\ UNCHANGED <<supernodes, validatorMonikers, syncRunning, syncMu, obs, httpStatus,
                   clock, chainHeight, failedWrites, lastOkVersion, lastOkObserved, evars, xvars>>

(* faulty variant: the pass returns at the first database error *)
UpsertNext_stopOnError(p, dbOk) ==
    /\ p \in Syncers
    /\ pc[p] = "write"
    /\ dbOk => CtxLive(p)
    /\ supernodes' = IF dbOk
                     THEN UpsertSupernode(supernodes,
                                          SupernodeRec(Head(queue[p]), validatorMonikers))
                     ELSE supernodes
    /\ queue' = [queue EXCEPT ![p] = IF dbOk THEN Tail(queue[p]) ELSE <<>>]
    /\ pc' = [pc EXCEPT ![p] = IF dbOk /\ Tail(queue[p]) # <<>> THEN "write"
                               ELSE AfterSync(p)]
    /\ UNCHANGED <<validatorMonikers, syncRunning, syncMu, obs, httpStatus, clock,
                   chainHeight, failedWrites, lastOkVersion, lastOkObserved, evars, xvars>>

(* syncSupernodes: the loop body for the next supernode of the page; a
   database error is logged and the loop goes on *)
UpsertNext(p, dbOk) ==
    /\ p \in Syncers
    /\ pc[p] = "write"
    /\ dbOk => CtxLive(p)
    /\ supernodes' = IF dbOk
                     THEN UpsertSupernode(supernodes,
                                          SupernodeRec(Head(queue[p]), validatorMonikers))
                     ELSE supernodes
    /\ queue' = [queue EXCEPT ![p] = Tail(queue[p])]
    /\ pc' = [pc EXCEPT ![p] = IF Tail(queue[p]) = <<>> THEN AfterSync(p) ELSE "write"]
    /\ UNCHANGED <<validatorMonikers, syncRunning, syncMu, obs, httpStatus, clock,
                   chainHeight, failedWrites, lastOkVersion, lastOkObserved, evars, xvars>>

(* probeSupernodes: ListKnownSupernodes returns the targets, or fails and the
   pass ends *)
ListTargets(p, ok) ==
    /\ p \in Probers
    /\ pc[p] = "list"
    /\ ok => CtxLive(p)
    /\ LET targets == IF ok THEN ListKnownSupernodes(supernodes) ELSE <<>>
       IN /\ queue' = [queue EXCEPT ![p] = targets]
          /\ pc' = [pc EXCEPT ![p] = IF targets = <<>> THEN AfterProbe(p) ELSE "dial"]
    /\ UNCHANGED <<supernodes, validatorMonikers, syncRunning, syncMu, obs, httpStatus,
                   clock, chainHeight, failedWrites, lastOkVersion, lastOkObserved, evars, xvars>>

(* probeSupernodes: a target with a malformed endpoint is skipped *)
SkipTarget(p) ==
    /\ p \in Probers
    /\ pc[p] = "dial"
    /\ ~ProbeTargetOK(Head(queue[p]))
    /\ queue' = [queue EXCEPT ![p] = Tail(queue[p])]
    /\ pc' = [pc EXCEPT ![p] = IF Tail(queue[p]) = <<>> THEN AfterProbe(p) ELSE "dial"]
    /\ UNCHANGED <<supernodes, validatorMonikers, syncRunning, syncMu, obs, httpStatus,
                   clock, chainHeight, failedWrites, lastOkVersion, lastOkObserved, evars, xvars>>

(* failed probes of account a already assembled and not yet written *)
PendingFailures(a) ==
    Cardinality({q \in Probers : /\ pc[q] = "update"
                                 /\ obs[q].SupernodeAccount = a
                                 /\ ~obs[q].IsStatusAPIAvailable})

(* probeSupernodes: the two dials and the status fetch for the next target *)
ProbeTarget(p, openPort1, openP2P, status) ==
    /\ p \in Probers
    /\ pc[p] = "dial"
    /\ ProbeTargetOK(Head(queue[p]))
    /\ (openPort1 \/ openP2P \/ status.Available) => CtxLive(p)
    /\ LET t == Head(queue[p])
       IN /\ status.Available \/ ~CtxLive(p) \/
               (t.SupernodeAccount \in DOMAIN supernodes =>
                  supernodes[t.SupernodeAccount].failedProbeCounter
                    + PendingFailures(t.SupernodeAccount) < MaxFailed)
          /\ obs' = [obs EXCEPT ![p] = ProbeUpdate(t, openPort1, openP2P, status, clock)]
    /\ pc' = [pc EXCEPT ![p] = "update"]
    /\ UNCHANGED <<supernodes, validatorMonikers, syncRunning, syncMu, queue, httpStatus,
                   clock, chainHeight, failedWrites, lastOkVersion, lastOkObserved, evars, xvars>>

(* the effect of one UpdateSupernodeProbeData(u) call on the table, with the
   history of probe writes kept beside it; a database error changes nothing *)
ApplyProbe(u, dbOk) ==
    LET a == u.SupernodeAccount
        hit == dbOk /\ a \in DOMAIN supernodes
    IN /\ failedWrites' =
            IF ~hit THEN failedWrites
            ELSE [failedWrites EXCEPT
                    ![a] = IF u.IsStatusAPIAvailable THEN 0 ELSE @ + 1]
       /\ lastOkObserved' =
            IF hit /\ u.IsStatusAPIAvailable
            THEN [lastOkObserved EXCEPT ![a] = Some(u.ActualVersion)]
            ELSE lastOkObserved
       /\ lastOkVersion' =
            IF hit /\ u.IsStatusAPIAvailable /\ u.ActualVersion # ""
            THEN [lastOkVersion EXCEPT ![a] = Some(u.ActualVersion)]
            ELSE lastOkVersion
       /\ supernodes' = IF dbOk THEN UpdateSupernodeProbeData(supernodes, u)
                        ELSE supernodes

(* probeSupernodes: UpdateSupernodeProbeData for the probed target; a
   database error is logged and the loop goes on *)
WriteProbe(p, dbOk) ==
    /\ p \in Probers
    /\ pc[p] = "update"
    /\ dbOk => CtxLive(p)
    /\ ApplyProbe(obs[p], dbOk)
    /\ queue' = [queue EXCEPT ![p] = Tail(queue[p])]
    /\ pc' = [pc EXCEPT ![p] = IF Tail(queue[p]) = <<>> THEN AfterProbe(p) ELSE "dial"]
    /\ UNCHANGED <<validatorMonikers, syncRunning, syncMu, obs, httpStatus, clock,
                   chainHeight, evars, xvars>>

(* TriggerSupernodeSync -> TriggerSyncAndProbe: r.syncMu.Lock() *)
TriggerLock(h) ==
    /\ h \in Handlers
    /\ pc["main"] = "serving"
    /\ pc[h] = "idle"
    /\ syncMu = "free"
    /\ syncMu' = h
    /\ pc' = [pc EXCEPT ![h] = "check"]
    /\ httpStatus' = [httpStatus EXCEPT ![h] = 0]
    /\ UNCHANGED <<supernodes, validatorMonikers, syncRunning, queue, obs, clock,
                   chainHeight, failedWrites, lastOkVersion, lastOkObserved, evars, xvars>>

(* faulty variant: the guard is not consulted *)
TriggerCheck_noGuard(h) ==
    /\ h \in Handlers
    /\ pc[h] = "check"
    /\ pc' = [pc EXCEPT ![h] = "set"]
    /\ UNCHANGED <<supernodes, validatorMonikers, syncRunning, syncMu, queue, obs,
                   httpStatus, clock, chainHeight, failedWrites, lastOkVersion,
                   lastOkObserved, evars, xvars>>

(* TriggerSyncAndProbe: `if r.syncRunning { Unlock; return false }`, which the
   handler answers with 204 No Content *)
TriggerCheck(h) ==
    /\ h \in Handlers
    /\ pc[h] = "check"
    /\ IF syncRunning
       THEN /\ syncMu' = "free"
            /\ httpStatus' = [httpStatus EXCEPT ![h] = 204]
            /\ pc' = [pc EXCEPT ![h] = "idle"]
       ELSE /\ pc' = [pc EXCEPT ![h] = "set"]
            /\ UNCHANGED <<syncMu, httpStatus>>
    /\ UNCHANGED <<supernodes, validatorMonikers, syncRunning, queue, obs, clock,
                   chainHeight, failedWrites, lastOkVersion, lastOkObserved, evars, xvars>>

(* TriggerSyncAndProbe: `r.syncRunning = true; Unlock; go func(){...}(); return
   true`, which the handler answers with 202 Accepted *)
TriggerStart(h) ==
    /\ h \in Handlers
    /\ pc[h] = "set"
    /\ syncRunning' = TRUE
    /\ syncMu' = "free"
    /\ \E m \in Manual :
          /\ pc[m] = "none"
          /\ m = "m1" \/ pc["m1"] # "none"   \* the next free goroutine
          /\ pc' = [pc EXCEPT ![h] = "idle", ![m] = "fetch"]
          /\ reqCtx' = [reqCtx EXCEPT ![m] = "live"]
    /\ httpStatus' = [httpStatus EXCEPT ![h] = 202]
    /\ UNCHANGED <<supernodes, validatorMonikers, queue, obs, clock, chainHeight,
                   failedWrites, lastOkVersion, lastOkObserved, evars, fvars, hvars,
                   lvars, cvars, mvars>>

(* the request that started run m ends: TriggerSupernodeSync has written 202
   and returned, or cfg.RequestTimeout has passed, and http.TimeoutHandler
   cancels the context it handed to the handler, which is the context the
   goroutine of the run was started with *)
RequestEnds(m) ==
    /\ m \in Manual
    /\ reqCtx[m] = "live"
    /\ reqCtx' = [reqCtx EXCEPT ![m] = "cancelled"]
    /\ UNCHANGED <<svars, evars, fvars, hvars, lvars, cvars, mvars>>

(* faulty variant: the goroutine ends without clearing the guard *)
RunDeferred_keepFlag(m) ==
    /\ m \in Manual
    /\ pc[m] = "defer"
    /\ syncMu = "free"
    /\ pc' = [pc EXCEPT ![m] = "none"]
    /\ reqCtx' = [reqCtx EXCEPT ![m] = "none"]
    /\ UNCHANGED <<supernodes, validatorMonikers, syncRunning, syncMu, queue, obs,
                   httpStatus, clock, chainHeight, failedWrites, lastOkVersion,
                   lastOkObserved, evars, fvars, hvars, lvars, cvars, mvars>>

(* the deferred function of the manual goroutine: Lock; syncRunning = false;
   Unlock *)
RunDeferred(m) ==
    /\ m \in Manual
    /\ pc[m] = "defer"
    /\ syncMu = "free"
    /\ syncRunning' = FALSE
    /\ pc' = [pc EXCEPT ![m] = "none"]
    /\ reqCtx' = [reqCtx EXCEPT ![m] = "none"]
    /\ UNCHANGED <<supernodes, validatorMonikers, syncMu, queue, obs, httpStatus, clock,
                   chainHeight, failedWrites, lastOkVersion, lastOkObserved, evars, fvars,
                   hvars, lvars, cvars, mvars>>

(* environment: the chain produces blocks; time passes *)
ChainAdvance ==
    /\ chainHeight < MaxChainHeight
    /\ chainHeight' = chainHeight + 1
    /\ UNCHANGED <<supernodes, validatorMonikers, syncRunning, syncMu, pc, queue, obs,
                   httpStatus, clock, failedWrites, lastOkVersion, lastOkObserved, evars, xvars>>

ClockTick ==
    /\ clock < MaxClock
    /\ clock' = clock + 1
    /\ UNCHANGED <<supernodes, validatorMonikers, syncRunning, syncMu, pc, queue, obs,
                   httpStatus, chainHeight, failedWrites, lastOkVersion, lastOkObserved,
                   evars, xvars>>

NoObs == [SupernodeAccount |-> "", IsStatusAPIAvailable |-> FALSE]

InitSupernodes ==
    /\ supernodes = << >>
    /\ validatorMonikers = Null
    /\ syncRunning = FALSE
    /\ syncMu = "free"
    /\ pc = [p \in Procs |-> CASE p = "main" -> "new"
                               [] p \in Handlers -> "idle"
                               [] OTHER -> "none"]
    /\ queue = [p \in Syncers \cup Probers |-> <<>>]
    /\ obs = [p \in Probers |-> NoObs]
    /\ httpStatus = [h \in Handlers |-> 0]
    /\ clock = 0
    /\ chainHeight = 0
    /\ failedWrites = [a \in Accounts |-> 0]
    /\ lastOkVersion = [a \in Accounts |-> Null]
    /\ lastOkObserved = [a \in Accounts |-> Null]
    /\ reqCtx = [m \in Manual |-> "none"]
    /\ building = Null
    /\ prevMonikers = Null
    /\ unsynced = FALSE
    /\ apage = Null

(* NewClient: nothing cached *)
InitClient ==
    /\ actionModuleAddr = ""
    /\ moduleAddrFetched = FALSE

InitLookups ==
    /\ lookups = 0
    /\ requests = 0
    /\ firstAddr = Null

InitEnricherState ==
    /\ actions = << >>
    /\ action_transactions = << >>
    /\ epc = "sleep"
    /\ minID = 0
    /\ batch = <<>>
    /\ batchLen = 0
    /\ passes = 0
    /\ firstPassInput = Null
    /\ rowsAfterFirst = << >>
    /\ perturbed = FALSE
    /\ response = Null

InitEnricher ==
    /\ InitEnricherState
    /\ InitClient
    /\ InitLookups


InitHelpers ==
    /\ fnIn = Null
    /\ fnOut = Null

InitHistory ==
    /\ syncLog = Null

Loops == {"loopValidators", "loopSupernodes", "loopActions", "loopProbes",
          "loopActionTxEnricher"}

InitLoops ==
    /\ cancelled = FALSE
    /\ loop = [l \in Loops |-> "none"]
    /\ ticks = [l \in Loops |-> Null]
    /\ drained = FALSE

Init == InitSupernodes /\ InitEnricher /\ InitHelpers /\ InitHistory /\ InitLoops

----------------------------------------------------------------------------
(* Spec: the supernodes table under its writers.  Every write statement of
   the chain-sync loop body and of the probe loop body is one step; which
   goroutine issues it (a periodic loop or a manual run) and how long ago it
   fetched what it writes is left open, so every interleaving of the writers
   is a behaviour. *)

Registered(a, h) ==
    \E i \in 1..Len(ChainSupernodes(h)) : ChainSupernodes(h)[i].supernode_account = a

(* the loop body of syncSupernodes for supernode a of a page fetched at tip h *)
SyncSupernodeWrite(a, h) ==
    /\ pc["main"] = "serving"
    /\ h \in 0..chainHeight
    /\ Registered(a, h)
    /\ supernodes' = UpsertSupernode(supernodes,
                                     SupernodeRec(ChainSupernode(a, h), validatorMonikers))
    /\ UNCHANGED <<validatorMonikers, syncRunning, syncMu, pc, queue, obs, httpStatus,
                   clock, chainHeight, failedWrites, lastOkVersion, lastOkObserved, evars>>

SyncSupernode(a, h) == SyncSupernodeWrite(a, h) /\ UNCHANGED xvars

(* the loop body of probeSupernodes for the listed target a, probed at time now *)
ProbeSupernode(a, openPort1, openP2P, status, now) ==
    /\ pc["main"] = "serving"
    /\ a \in DOMAIN supernodes
    /\ now \in 0..clock
    /\ LET t == [SupernodeAccount |-> a,
                 IPAddress |-> supernodes[a].ipAddress[1],
                 P2PPort |-> supernodes[a].p2pPort[1]]
       IN /\ ProbeTargetOK(t)
          /\ status.Available \/ supernodes[a].failedProbeCounter < MaxFailed
          /\ ApplyProbe(ProbeUpdate(t, openPort1, openP2P, status, now), TRUE)
    /\ UNCHANGED <<validatorMonikers, syncRunning, syncMu, pc, queue, obs, httpStatus,
                   clock, chainHeight, evars, xvars>>

(* a pass of loopValidators that succeeds *)
RefreshValidators ==
    /\ pc["main"] = "serving"
    /\ validatorMonikers' = syncValidators(validatorMonikers, chainHeight, TRUE)
    /\ UNCHANGED <<supernodes, syncRunning, syncMu, pc, queue, obs, httpStatus, clock,
                   chainHeight, failedWrites, lastOkVersion, lastOkObserved, evars, xvars>>

Next ==
    \/ \E ok \in BOOLEAN : Start(ok)
    \/ RefreshValidators
    \/ \E a \in Accounts, h \in 0..MaxChainHeight : SyncSupernode(a, h)
    \/ \E a \in Accounts, o1 \in BOOLEAN, o2 \in BOOLEAN, st \in fetchStatus,
          now \in 0..MaxClock : ProbeSupernode(a, o1, o2, st, now)
    \/ ChainAdvance
    \/ ClockTick

Spec == Init /\ [][Next]_vars

----------------------------------------------------------------------------
(* SpecTrigger: the single-flight manual trigger.  The requests being served
   and the goroutine of an accepted run take their steps one by one, while
   the chain is at rest. *)

ManualStep(m) ==
    \/ \E ok \in BOOLEAN : FetchSupernodes(m, ok)
    \/ \E dbOk \in BOOLEAN : UpsertNext(m, dbOk)
    \/ \E ok \in BOOLEAN : ListTargets(m, ok)
    \/ SkipTarget(m)
    \/ \E o \in BOOLEAN, st \in {UnavailableStatus, AvailableStatus("v1")} :
          ProbeTarget(m, o, o, st)
    \/ \E dbOk \in BOOLEAN : WriteProbe(m, dbOk)

NextTrigger ==
    \/ \E ok \in BOOLEAN : Start(ok)
    \/ \E h \in Handlers : TriggerLock(h)
    \/ \E h \in Handlers : TriggerCheck(h)
    \/ \E h \in Handlers : TriggerStart(h)
    \/ \E m \in Manual : ManualStep(m)
    \/ \E m \in Manual : RequestEnds(m)
    \/ \E m \in Manual : RunDeferred(m)

SpecTrigger == Init /\ [][NextTrigger]_vars

(* SpecTriggerFair: a goroutine that can take a step takes one, a handler
   inside TriggerSyncAndProbe returns, and sync.Mutex hands the lock to a
   waiter that keeps asking for it (starvation mode), so the deferred
   function of a run is not overtaken for ever. *)
SpecTriggerFair ==
    /\ SpecTrigger
    /\ WF_vars(\E m \in Manual : ManualStep(m))
    /\ WF_vars(\E h \in Handlers : TriggerCheck(h) \/ TriggerStart(h))
    /\ SF_vars(\E m \in Manual : RunDeferred(m))

----------------------------------------------------------------------------
(* Ownership of the columns of a supernode row *)

(* what a reader gets from a nullable text column *)
ReadText(col) == IF col = Null THEN "" ELSE col[1]

(* a probe write of account a on the success path / on the failure path *)
SuccessfulProbeWrite(a) ==
    \E o1 \in BOOLEAN, o2 \in BOOLEAN, v \in Versions, now \in 0..MaxClock :
        ProbeSupernode(a, o1, o2, AvailableStatus(v), now)

FailedProbeWrite(a) ==
    \E o1 \in BOOLEAN, o2 \in BOOLEAN, now \in 0..MaxClock :
        ProbeSupernode(a, o1, o2, UnavailableStatus, now)

ChainSyncWrite(a) == \E h \in 0..MaxChainHeight : SyncSupernode(a, h)

(* C1: a chain-sync write on an account that already has a row leaves every
   probe-owned column of that row unchanged, the probe metrics blob
   included. *)
C1_SyncKeepsProbeColumns ==
    [][\A a \in Accounts :
          (ChainSyncWrite(a) /\ a \in DOMAIN supernodes)
             => \A c \in ProbeColumns : supernodes'[a][c] = supernodes[a][c]]_vars

(* C2: a probe write, on the success path or on the failure path, changes
   only probe-owned columns of the existing row of its account: every
   chain-owned column keeps its value, every other row stays as it is and no
   row is inserted. *)
C2_ProbeWriteFrame ==
    [][\A a \in DOMAIN supernodes :
          \/ /\ DOMAIN supernodes' = DOMAIN supernodes
             /\ \A c \in ChainColumns : supernodes'[a][c] = supernodes[a][c]
             /\ \A c \in DOMAIN supernodes[a] \ ProbeColumns :
                   supernodes'[a][c] = supernodes[a][c]
             /\ \A b \in DOMAIN supernodes \ {a} : supernodes'[b] = supernodes[b]
          \/ ~(SuccessfulProbeWrite(a) \/ FailedProbeWrite(a))]_vars

(* a row the chain sync has filled in, probed with success and then with a
   failure *)
C2_Witness ==
    \E a \in DOMAIN supernodes :
        /\ supernodes[a].validatorMoniker = Some("alice")
        /\ supernodes[a].lastSuccessfulProbe # Null
        /\ ~supernodes[a].isStatusApiAvailable
        /\ supernodes[a].failedProbeCounter = 1

----------------------------------------------------------------------------
(* The manual trigger *)

(* C3: at most one manual sync+probe run is in flight; a trigger call that
   finds an accepted run unfinished starts nothing and is answered 204, a
   call that finds none starts exactly one run and is answered 202. *)
C3_SingleFlight ==
    /\ [](Cardinality(RunsInFlight) <= 1)
    /\ [](syncRunning <=> RunsInFlight # {})
    /\ [][\A h \in Handlers :
             /\ (TriggerCheck(h) /\ syncRunning)
                   => /\ httpStatus'[h] = 204
                      /\ pc'[h] = "idle"
                      /\ RunsInFlight' = RunsInFlight
                      /\ UNCHANGED <<supernodes, queue, obs>>
             /\ (TriggerCheck(h) /\ ~syncRunning) => pc'[h] = "set"
             /\ TriggerStart(h)
                   => /\ httpStatus'[h] = 202
                      /\ RunsInFlight = {}
                      /\ Cardinality(RunsInFlight') = 1
             /\ (httpStatus'[h] = 202 /\ httpStatus[h] # 202) => TriggerStart(h)]_vars

(* one request accepted, the other one declined while that run is in flight *)
C3_Witness ==
    /\ httpStatus["h1"] = 202
    /\ httpStatus["h2"] = 204
    /\ Cardinality(RunsInFlight) = 1

(* C4: the guard is cleared when an accepted run ends, whatever the sync
   step and the probe step did, so it is never set for ever and a trigger
   that arrives once it is clear is accepted. *)
C4_GuardCleared ==
    /\ syncRunning ~> ~syncRunning
    /\ \A h \in Handlers : (pc[h] = "check" /\ ~syncRunning) ~> (httpStatus[h] = 202)

(* a run has ended (its probe write is in the table, its goroutine is gone),
   the guard is clear and a trigger has been accepted again *)
C4_Witness ==
    /\ ~syncRunning
    /\ \E a \in DOMAIN supernodes : supernodes[a].lastStatusCheck # Null
    /\ \E h \in Handlers : pc[h] = "set"

----------------------------------------------------------------------------
(* The probe bookkeeping of a row *)

(* C5: in every interleaving of probe writes and chain-sync writes the
   failed-probe counter of a row decreases only in a successful probe write,
   and right after a successful probe write it is zero. *)
C5_CounterResetOnlyBySuccess ==
    [][\A a \in DOMAIN supernodes :
          /\ supernodes'[a].failedProbeCounter < supernodes[a].failedProbeCounter
                => SuccessfulProbeWrite(a)
          /\ supernodes'[a].failedProbeCounter = 0 \/ ~SuccessfulProbeWrite(a)]_vars

(* a row probed with success, then failing, with a chain sync of a later tip
   written to it *)
C5_Witness ==
    \E a \in DOMAIN supernodes :
        /\ supernodes[a].lastSuccessfulProbe # Null
        /\ supernodes[a].failedProbeCounter = MaxFailed
        /\ supernodes[a].currentState = "SUPERNODE_STATE_STOPPED"

(* C6: the failed-probe counter equals the number of failed probe writes since
   the most recent successful one, whichever goroutines issued them and in
   whatever order their statements reached the database. *)
C6_CounterCountsFailures ==
    \A a \in DOMAIN supernodes : supernodes[a].failedProbeCounter = failedWrites[a]

C6_Witness ==
    \E a \in DOMAIN supernodes :
        /\ failedWrites[a] >= 2
        /\ supernodes[a].failedProbeCounter >= 2

(* C7 as stated: last_known_actual_version is the version observed in the
   most recent successful probe, and a failed probe never changes it. *)
C7_LastKnownIsLastObserved ==
    /\ [](\A a \in DOMAIN supernodes :
             lastOkObserved[a] # Null
                => ReadText(supernodes[a].lastKnownActualVersion) = lastOkObserved[a][1])
    /\ [][\A a \in DOMAIN supernodes :
             \/ supernodes'[a].lastKnownActualVersion
                   = supernodes[a].lastKnownActualVersion
             \/ ~FailedProbeWrite(a)]_vars

(* C7 amended: last_known_actual_version is the most recent non-empty version
   a successful probe observed (NULL while there is none); a successful probe
   that observes an empty version, a failed probe and a chain-sync write leave
   it as it is. *)
C7_LastKnownIsLastNonEmpty ==
    /\ [](\A a \in DOMAIN supernodes :
             supernodes[a].lastKnownActualVersion = lastOkVersion[a])
    /\ [][\A a \in DOMAIN supernodes :
             \/ supernodes'[a].lastKnownActualVersion
                   = supernodes[a].lastKnownActualVersion
             \/ ~(FailedProbeWrite(a) \/ ChainSyncWrite(a))]_vars

(* the last successful probe observed no version, an earlier one observed
   v1, and a failed probe came after them *)
C7_Witness ==
    \E a \in DOMAIN supernodes :
        /\ lastOkObserved[a] = Some("")
        /\ supernodes[a].lastKnownActualVersion = Some("v1")
        /\ supernodes[a].failedProbeCounter > 0

----------------------------------------------------------------------------
(* Action transactions: the chain's transaction search *)

ActionIDs == 1..MaxActions
TxTypes == {"register", "finalize", "approve"}
PlaceholderTxHash == "_NO_TX_FOUND_"
ActionEnricherStartID == 0
ModuleAccount == "lumera1module"

(* time.Parse(time.RFC3339, s), the zero time on a malformed stamp *)
ParseTime(s) ==
    CASE s = "1970-01-01T00:01:40Z" -> 100
      [] s = "1970-01-01T00:03:20Z" -> 200
      [] OTHER -> 0

(* an Event of a TxResult: its Type and the values its Attributes give the
   keys sender, recipient and amount (Null = the key is absent) *)
Event(type, sender, recipient, amount) ==
    [Type |-> type, sender |-> sender, recipient |-> recipient, amount |-> amount]

(* a transfer event carrying sender, recipient and amount *)
Transfer(sender, recipient, amount) ==
    Event("transfer", Some(sender), Some(recipient), Some(amount))

(* a TxResult whose transfer events are all at the top level *)
ChainTx(hash, height, stamp, signer, transfers) ==
    [txhash |-> hash, height |-> height, timestamp |-> stamp, signer |-> signer,
     Events |-> transfers, Logs |-> <<>>]

(* parseTransferEvent: nil when the event has neither sender nor recipient *)
parseTransferEvent(ev) ==
    IF ev.sender = Null /\ ev.recipient = Null THEN Null
    ELSE Some([Payer |-> ev.sender, Payee |-> ev.recipient, Amount |-> ev.amount])

RECURSIVE TransfersOf(_)
(* the loop over a list of events: every transfer event that parses is
   appended *)
TransfersOf(events) ==
    IF events = <<>> THEN <<>>
    ELSE LET tf == IF Head(events).Type = "transfer"
                   THEN parseTransferEvent(Head(events)) ELSE Null
         IN (IF tf # Null THEN <<tf[1]>> ELSE <<>>) \o TransfersOf(Tail(events))

RECURSIVE TransfersOfLogs(_)
(* the loop over txResult.Logs *)
TransfersOfLogs(logs) ==
    IF logs = <<>> THEN <<>>
    ELSE TransfersOf(Head(logs).Events) \o TransfersOfLogs(Tail(logs))

(* faulty variant: the per-log events are collected before the top-level ones *)
CollectTransfers_logsFirst(txResult) ==
    TransfersOfLogs(txResult.Logs) \o TransfersOf(txResult.Events)

(* extractTransferFlow: the slice transfers after both collecting loops *)
CollectTransfers(txResult) ==
    TransfersOf(txResult.Events) \o TransfersOfLogs(txResult.Logs)

(* what the tx search answers at tip h for the event of txType with action id *)
ChainTxsOf(id, txType, h) ==
    CASE id = 1 /\ txType = "register" ->
            <<ChainTx("R1", "10", "1970-01-01T00:01:40Z", "creator",
                      <<Transfer("creator", "feecollector", "5"),
                        Transfer("creator", ModuleAccount, "100")>>)>>
      [] id = 1 /\ txType = "finalize" /\ h >= 1 ->
            <<ChainTx("F1", "20", "1970-01-01T00:03:20Z", "sn1",
                      <<Transfer("sn1", "feecollector", "5"),
                        Transfer(ModuleAccount, "sn1", "100")>>)>>
      [] id = 2 /\ txType = "register" /\ h >= 2 ->
            <<ChainTx("R2", "20", "1970-01-01T00:03:20Z", "creator", <<>>)>>
      [] id >= 3 /\ txType = "finalize" ->
            <<ChainTx("F3a", "20", "1970-01-01T00:03:20Z", "sn1",
                      <<Transfer(ModuleAccount, "sn1", "100")>>),
              ChainTx("F3b", "10", "not a time", "",
                      <<Transfer("other", "sn2", "7")>>)>>
      [] id >= 3 /\ txType = "approve" /\ h >= 1 ->
            <<ChainTx("A3", "20", "1970-01-01T00:03:20Z", "creator", <<>>)>>
      [] OTHER -> <<>>

(* the first element of seq that satisfies P, Null when there is none *)
FirstWhere(seq, P(_)) ==
    LET idx == {i \in 1..Len(seq) : P(seq[i])}
    IN IF idx = {} THEN Null
       ELSE Some(seq[CHOOSE i \in idx : \A j \in idx : i <= j])

RECURSIVE FirstSome(_)
FirstSome(options) ==
    IF options = <<>> THEN Null
    ELSE IF Head(options) # Null THEN Head(options)
    ELSE FirstSome(Tail(options))

(* faulty variant: for finalize and approve, "recipient is the tx signer" is
   tried before "sender is the module" *)
extractTransferFlow_signerBeforeModule(action, txType, txResult, moduleAddr, txSigner) ==
    LET tr == CollectTransfers(txResult)
        fromModule(t) == moduleAddr # "" /\ t.Payer = Some(moduleAddr)
    IN IF tr = <<>> THEN Null
       ELSE IF txType = "register"
       THEN FirstSome(<<
              FirstWhere(tr, LAMBDA t : moduleAddr # "" /\ t.Payee = Some(moduleAddr)),
              FirstWhere(tr, LAMBDA t : t.Payer = Some(action.Creator)),
              Some(tr[1])>>)
       ELSE FirstSome(<<
              FirstWhere(tr, LAMBDA t : /\ fromModule(t)
                                        /\ txSigner # ""
                                        /\ t.Payee = Some(txSigner)),
              FirstWhere(tr, LAMBDA t : /\ fromModule(t)
                                        /\ action.SupernodeAccount # ""
                                        /\ t.Payee = Some(action.SupernodeAccount)),
              FirstWhere(tr, LAMBDA t : txSigner # "" /\ t.Payee = Some(txSigner)),
              FirstWhere(tr, LAMBDA t : fromModule(t)),
              FirstWhere(tr, LAMBDA t : /\ action.SupernodeAccount # ""
                                        /\ t.Payee = Some(action.SupernodeAccount)),
              FirstWhere(tr, LAMBDA t : /\ t.Payer # Null
                                        /\ t.Payer # Some(action.Creator)),
              Some(tr[1])>>)

(* extractTransferFlow: the transfer that carries the action's payment *)
extractTransferFlow(action, txType, txResult, moduleAddr, txSigner) ==
    LET tr == CollectTransfers(txResult)
        fromModule(t) == moduleAddr # "" /\ t.Payer = Some(moduleAddr)
    IN IF tr = <<>> THEN Null
       ELSE IF txType = "register"
       THEN FirstSome(<<
              FirstWhere(tr, LAMBDA t : moduleAddr # "" /\ t.Payee = Some(moduleAddr)),
              FirstWhere(tr, LAMBDA t : t.Payer = Some(action.Creator)),
              Some(tr[1])>>)
       ELSE FirstSome(<<
              FirstWhere(tr, LAMBDA t : /\ fromModule(t)
                                        /\ txSigner # ""
                                        /\ t.Payee = Some(txSigner)),
              FirstWhere(tr, LAMBDA t : /\ fromModule(t)
                                        /\ action.SupernodeAccount # ""
                                        /\ t.Payee = Some(action.SupernodeAccount)),
              FirstWhere(tr, LAMBDA t : fromModule(t)),
              FirstWhere(tr, LAMBDA t : txSigner # "" /\ t.Payee = Some(txSigner)),
              FirstWhere(tr, LAMBDA t : /\ action.SupernodeAccount # ""
                                        /\ t.Payee = Some(action.SupernodeAccount)),
              FirstWhere(tr, LAMBDA t : /\ t.Payer # Null
                                        /\ t.Payer # Some(action.Creator)),
              Some(tr[1])>>)

(* parseTxResult: the db.ActionTransaction of one search result *)
parseTxResult(action, txType, txResult, moduleAddr) ==
    LET flow == extractTransferFlow(action, txType, txResult, moduleAddr, txResult.signer)
    IN [ActionID |-> action.ActionID,
        TxType |-> txType,
        TxHash |-> txResult.txhash,
        Height |-> ParseInt(txResult.height).v,
        BlockTime |-> ParseTime(txResult.timestamp),
        ActionPrice |-> IF flow = Null THEN Null ELSE flow[1].Amount,
        FlowPayer |-> IF flow = Null THEN Null ELSE flow[1].Payer,
        FlowPayee |-> IF flow = Null THEN Null ELSE flow[1].Payee]

(* GetActionTransactions: the three searches in order; a search that fails
   contributes nothing and no error is returned *)
GetActionTransactions(action, h, moduleAddr, searchOk) ==
    LET found(txType) ==
            IF txType \in searchOk
            THEN [i \in 1..Len(ChainTxsOf(action.ActionID, txType, h)) |->
                     parseTxResult(action, txType,
                                   ChainTxsOf(action.ActionID, txType, h)[i], moduleAddr)]
            ELSE <<>>
    IN found("register") \o found("finalize") \o found("approve")

(* GetActionModuleAccount: the cached address, else the one fetched *)
GetActionModuleAccount(cached, ok) ==
    IF cached # "" THEN cached ELSE IF ok THEN ModuleAccount ELSE ""

----------------------------------------------------------------------------
(* Persistence layer: actions and action_transactions *)

(* faulty variant: a plain INSERT, as without the unique constraint *)
UpsertActionTransaction_plainInsert(tbl, tx, now) ==
    Append(tbl, [actionID |-> tx.ActionID, txType |-> tx.TxType, txHash |-> tx.TxHash,
                 height |-> tx.Height, blockTime |-> tx.BlockTime,
                 actionPrice |-> tx.ActionPrice, flowPayer |-> tx.FlowPayer,
                 flowPayee |-> tx.FlowPayee, createdAt |-> now])

(* faulty variant: the conflict target also names the transaction hash *)
UpsertActionTransaction_keyedOnHash(tbl, tx, now) ==
    LET hits == {i \in 1..Len(tbl) :
                    /\ tbl[i].actionID = tx.ActionID
                    /\ tbl[i].txType = tx.TxType
                    /\ tbl[i].txHash = tx.TxHash}
        row(createdAt) ==
            [actionID |-> tx.ActionID, txType |-> tx.TxType, txHash |-> tx.TxHash,
             height |-> tx.Height, blockTime |-> tx.BlockTime,
             actionPrice |-> tx.ActionPrice, flowPayer |-> tx.FlowPayer,
             flowPayee |-> tx.FlowPayee, createdAt |-> createdAt]
    IN IF hits = {} THEN Append(tbl, row(now))
       ELSE [i \in 1..Len(tbl) |-> IF i \in hits THEN row(tbl[i].createdAt) ELSE tbl[i]]

(* the table after UpsertActionTransaction(tx): a new row, or the row of
   (actionID, txType) with every column but createdAt replaced *)
UpsertActionTransaction(tbl, tx, now) ==
    LET hits == {i \in 1..Len(tbl) :
                    tbl[i].actionID = tx.ActionID /\ tbl[i].txType = tx.TxType}
        row(createdAt) ==
            [actionID |-> tx.ActionID, txType |-> tx.TxType, txHash |-> tx.TxHash,
             height |-> tx.Height, blockTime |-> tx.BlockTime,
             actionPrice |-> tx.ActionPrice, flowPayer |-> tx.FlowPayer,
             flowPayee |-> tx.FlowPayee, createdAt |-> createdAt]
    IN IF hits = {} THEN Append(tbl, row(now))
       ELSE [i \in 1..Len(tbl) |-> IF i \in hits THEN row(tbl[i].createdAt) ELSE tbl[i]]

RECURSIVE SortedIDs(_)
SortedIDs(S) ==
    IF S = {} THEN <<>>
    ELSE LET m == CHOOSE x \in S : \A y \in S : x <= y
         IN <<m>> \o SortedIDs(S \ {m})

(* faulty variant: the selection without its NOT EXISTS clause *)
GetUnenrichedActions_noFilter(acts, tbl, min, limit) ==
    LET ids == SortedIDs({id \in DOMAIN acts : id >= min})
        lim == IF limit <= 0 THEN 100 ELSE limit
    IN [i \in 1..(IF Len(ids) < lim THEN Len(ids) ELSE lim) |-> acts[ids[i]]]

(* faulty variant: the selection without its `actionID >= $1` clause *)
GetUnenrichedActions_noFloor(acts, tbl, min, limit) ==
    LET ids == SortedIDs({id \in DOMAIN acts :
                    ~\E i \in 1..Len(tbl) :
                        tbl[i].actionID = id /\ tbl[i].txType = "register"})
        lim == IF limit <= 0 THEN 100 ELSE limit
    IN [i \in 1..(IF Len(ids) < lim THEN Len(ids) ELSE lim) |-> acts[ids[i]]]

(* GetUnenrichedActions: the actions from min on that have no register row,
   by ascending id, at most limit of them *)
GetUnenrichedActions(acts, tbl, min, limit) ==
    LET ids == SortedIDs({id \in DOMAIN acts :
                    /\ id >= min
                    /\ ~\E i \in 1..Len(tbl) :
                          tbl[i].actionID = id /\ tbl[i].txType = "register"})
        lim == IF limit <= 0 THEN 100 ELSE limit
    IN [i \in 1..(IF Len(ids) < lim THEN Len(ids) ELSE lim) |-> acts[ids[i]]]

RECURSIVE ByHeight(_, _)
(* ORDER BY height ASC over the rows at the indexes I *)
ByHeight(tbl, I) ==
    IF I = {} THEN <<>>
    ELSE LET m == CHOOSE i \in I :
                     \A j \in I : \/ tbl[i].height < tbl[j].height
                                  \/ tbl[i].height = tbl[j].height /\ i <= j
         IN <<tbl[m]>> \o ByHeight(tbl, I \ {m})

(* db.GetActionTransactions / GetActionTransactionsByActionIDs for one id *)
ActionTransactionsOf(tbl, id) ==
    ByHeight(tbl, {i \in 1..Len(tbl) : tbl[i].actionID = id})

----------------------------------------------------------------------------
(* The enricher goroutine *)

(* the row db.GetUnenrichedActions scans for action id, inserted at time now *)
ActionRow(id, now) ==
    [ActionID |-> id, Creator |-> "creator",
     SupernodeAccount |-> IF id = 1 THEN "sn1" ELSE "",
     CreatedAt |-> now]

(* syncActions: UpsertAction of the next action the chain has registered *)
AddAction(id) ==
    /\ pc["main"] = "serving"
    /\ id \in ActionIDs \ DOMAIN actions
    /\ id = Cardinality(DOMAIN actions) + 1
    /\ actions' = [a \in DOMAIN actions \cup {id} |->
                      IF a = id THEN ActionRow(id, clock) ELSE actions[a]]
    /\ UNCHANGED <<svars, xvars, action_transactions, actionModuleAddr, epc, minID, batch,
                   batchLen, passes, firstPassInput, rowsAfterFirst, perturbed, response>>

(* faulty variant: the placeholder is filed under another transaction type *)
Placeholder_asFinalize(action) ==
    [ActionID |-> action.ActionID, TxType |-> "finalize", TxHash |-> PlaceholderTxHash,
     Height |-> 0, BlockTime |-> action.CreatedAt,
     ActionPrice |-> Null, FlowPayer |-> Null, FlowPayee |-> Null]

(* the placeholder runActionTxEnricher writes when no transaction was found *)
Placeholder(action) ==
    [ActionID |-> action.ActionID, TxType |-> "register", TxHash |-> PlaceholderTxHash,
     Height |-> 0, BlockTime |-> action.CreatedAt,
     ActionPrice |-> Null, FlowPayer |-> Null, FlowPayee |-> Null]

RECURSIVE UpsertEach(_, _, _, _)
(* the loop over txs: each UpsertActionTransaction succeeds or is logged *)
UpsertEach(tbl, txs, writeOk, now) ==
    IF txs = <<>> THEN tbl
    ELSE UpsertEach(IF Head(txs).TxType \in writeOk
                    THEN UpsertActionTransaction(tbl, Head(txs), now)
                    ELSE tbl,
                    Tail(txs), writeOk, now)

(* runActionTxEnricher returns: the loop drains its ticker and waits *)
EndPass ==
    /\ epc' = "wait"
    /\ passes' = passes + 1
    /\ rowsAfterFirst' = IF passes = 0 THEN action_transactions' ELSE rowsAfterFirst

(* loopActionTxEnricher: the initial sleep is over, or the ticker fires an
   interval after the last pass, and runActionTxEnricher begins with minID
   from the configuration *)
EnricherWake ==
    /\ pc["main"] = "serving"
    /\ epc \in {"sleep", "wait"}
    /\ passes < MaxPasses
    /\ epc' = "fetch"
    /\ clock' = IF epc = "wait" /\ clock < MaxClock THEN clock + 1 ELSE clock
    /\ minID' = ActionEnricherStartID
    /\ firstPassInput' = IF passes = 0
                         THEN Some([height |-> chainHeight, actions |-> DOMAIN actions])
                         ELSE firstPassInput
    /\ UNCHANGED <<supernodes, validatorMonikers, syncRunning, syncMu, pc, queue, obs,
                   httpStatus, chainHeight, failedWrites, lastOkVersion, lastOkObserved,
                   actions, action_transactions, actionModuleAddr, batch, batchLen,
                   passes, rowsAfterFirst, perturbed, response, xvars>>

(* runActionTxEnricher: GetUnenrichedActions for the next batch; an error or
   an empty batch ends the pass *)
FetchBatch(ok) ==
    /\ epc = "fetch"
    /\ LET got == IF ok
                  THEN GetUnenrichedActions(actions, action_transactions, minID, batchSize)
                  ELSE <<>>
       IN /\ batch' = got
          /\ batchLen' = Len(got)
          /\ action_transactions' = action_transactions
          /\ IF got = <<>> THEN EndPass
             ELSE epc' = "process" /\ UNCHANGED <<passes, rowsAfterFirst>>
    /\ perturbed' = (perturbed \/ ~ok)
    /\ UNCHANGED <<svars, xvars, actions, actionModuleAddr, minID, firstPassInput, response>>

(* runActionTxEnricher: the loop body for the next action of the batch *)
ProcessAction(searchOk, moduleOk, writeOk) ==
    /\ epc = "process"
    /\ LET action == Head(batch)
           moduleAddr == GetActionModuleAccount(actionModuleAddr, moduleOk)
           txs == GetActionTransactions(action, chainHeight, moduleAddr, searchOk)
           toWrite == IF Len(txs) = 0 THEN <<Placeholder(action)>> ELSE txs
       IN /\ minID' = action.ActionID + 1
          /\ actionModuleAddr' = moduleAddr
          /\ moduleAddrFetched' = (moduleAddrFetched \/ moduleAddr # "")
          /\ action_transactions' = UpsertEach(action_transactions, toWrite, writeOk, clock)
          /\ perturbed' = \/ perturbed
                          \/ searchOk # TxTypes
                          \/ moduleAddr = ""
                          \/ \E i \in 1..Len(toWrite) : toWrite[i].TxType \notin writeOk
    /\ batch' = Tail(batch)
    /\ IF Tail(batch) # <<>> THEN epc' = "process" /\ UNCHANGED <<passes, rowsAfterFirst>>
       ELSE IF batchLen < batchSize THEN EndPass
       ELSE epc' = "fetch" /\ UNCHANGED <<passes, rowsAfterFirst>>
    /\ UNCHANGED <<svars, fvars, hvars, rvars, mvars, lvars, lookups, requests, firstAddr,
                   actions, batchLen, firstPassInput, response>>

----------------------------------------------------------------------------
(* The action read handlers *)

(* faulty variant: no row is taken for a placeholder *)
isPlaceholderTransaction_never(tx) == FALSE

isPlaceholderTransaction(tx) == tx.txHash = PlaceholderTxHash

actionTransactionToDTO(tx) ==
    [TxType |-> tx.txType, TxHash |-> tx.txHash, Height |-> tx.height,
     BlockTime |-> tx.blockTime, ActionPrice |-> tx.actionPrice,
     FlowPayer |-> tx.flowPayer, FlowPayee |-> tx.flowPayee]

(* the flattened <type>_tx_id / <type>_tx_time the loop leaves for txType *)
Flattened(kept, txType) ==
    LET idx == {i \in 1..Len(kept) : kept[i].txType = txType}
    IN IF idx = {} THEN [ID |-> Null, Time |-> Null]
       ELSE LET last == CHOOSE i \in idx : \A j \in idx : j <= i
            IN [ID |-> Some(kept[last].txHash), Time |-> Some(kept[last].blockTime)]

(* the item both handlers build for an action from its transaction rows *)
ActionItem(action, txs, withTransactions) ==
    LET kept == SelectSeq(txs, LAMBDA tx : ~isPlaceholderTransaction(tx))
    IN [ID |-> ToString(action.ActionID),
        Creator |-> action.Creator,
        RegisterTx |-> Flattened(kept, "register"),
        FinalizeTx |-> Flattened(kept, "finalize"),
        ApproveTx |-> Flattened(kept, "approve"),
        Transactions |-> IF Len(txs) > 0 /\ withTransactions
                         THEN Some([i \in 1..Len(kept) |-> actionTransactionToDTO(kept[i])])
                         ELSE Null]

Placeholders(tbl) == {i \in 1..Len(tbl) : isPlaceholderTransaction(tbl[i])}

(* GET /v1/actions: every action, newest id first *)
ListActions(includeTransactions) ==
    /\ pc["main"] = "serving"
    /\ LET asc == SortedIDs(DOMAIN actions)
           n == Len(asc)
       IN response' =
            Some([status |-> 200,
                  items |-> [i \in 1..n |->
                               ActionItem(actions[asc[n + 1 - i]],
                                          ActionTransactionsOf(action_transactions,
                                                               asc[n + 1 - i]),
                                          includeTransactions)],
                  hidden |-> Cardinality({i \in Placeholders(action_transactions) :
                                            action_transactions[i].actionID \in DOMAIN actions})])
    /\ UNCHANGED <<svars, xvars, actions, action_transactions, actionModuleAddr, epc, minID,
                   batch, batchLen, passes, firstPassInput, rowsAfterFirst, perturbed>>

(* GET /v1/actions/{id}: 404 for an unknown id, else the action's item *)
GetAction(id) ==
    /\ pc["main"] = "serving"
    /\ response' =
         IF id \notin DOMAIN actions
         THEN Some([status |-> 404, items |-> <<>>, hidden |-> 0])
         ELSE Some([status |-> 200,
                    items |-> <<ActionItem(actions[id],
                                           ActionTransactionsOf(action_transactions, id),
                                           TRUE)>>,
                    hidden |-> Cardinality({i \in Placeholders(action_transactions) :
                                              action_transactions[i].actionID = id})])
    /\ UNCHANGED <<svars, xvars, actions, action_transactions, actionModuleAddr, epc, minID,
                   batch, batchLen, passes, firstPassInput, rowsAfterFirst, perturbed>>

----------------------------------------------------------------------------
(* SpecEnrich: the enricher goroutine, the action sync that feeds it, the
   chain it searches and the handlers that read what it wrote. *)

(* the searches that answer, and the writes that succeed, in one loop body;
   once a request or a statement has failed the ones that follow succeed *)
SearchOutcomes == {TxTypes, TxTypes \ {"register"}, {}}
WriteOutcomes == {TxTypes, TxTypes \ {"register"}, {}}

(* the response of a handler has been written out; what it holds was fixed
   when the handler ran, so it is delivered before the next step is looked at *)
Deliver ==
    /\ response # Null
    /\ response' = Null
    /\ UNCHANGED <<svars, xvars, actions, action_transactions, actionModuleAddr, epc, minID,
                   batch, batchLen, passes, firstPassInput, rowsAfterFirst, perturbed>>

(* no response is waiting to be delivered *)
Quiet == response = Null

NextEnrich ==
    \/ Deliver
    \/ \E ok \in BOOLEAN : Quiet /\ Start(ok)
    \/ \E id \in ActionIDs : Quiet /\ AddAction(id)
    \/ Quiet /\ EnricherWake
    \/ \E ok \in BOOLEAN : Quiet /\ (ok \/ ~perturbed) /\ FetchBatch(ok)
    \/ \E searchOk \in SearchOutcomes, moduleOk \in BOOLEAN, writeOk \in WriteOutcomes :
          /\ Quiet
          /\ (searchOk = TxTypes /\ moduleOk /\ writeOk = TxTypes) \/ ~perturbed
          /\ ProcessAction(searchOk, moduleOk, writeOk)
    \/ \E includeTransactions \in BOOLEAN : Quiet /\ ListActions(includeTransactions)
    \/ \E id \in ActionIDs : Quiet /\ GetAction(id)
    \/ Quiet /\ ChainAdvance

SpecEnrich == Init /\ [][NextEnrich]_vars

----------------------------------------------------------------------------
(* The rows the enricher leaves *)

(* a table's rows, creation timestamp aside *)
RowSet(tbl) ==
    {[c \in DOMAIN tbl[i] \ {"createdAt"} |-> tbl[i][c]] : i \in 1..Len(tbl)}

(* nothing the enricher read has changed since its first pass began, and no
   request or statement of it has failed *)
Undisturbed ==
    /\ ~perturbed
    /\ firstPassInput = Some([height |-> chainHeight, actions |-> DOMAIN actions])

(* C8: running the enricher again over the same actions leaves the rows the
   first pass left: the same keys, the same number of rows and the same
   column contents, creation timestamp aside. *)
C8_EnricherIdempotent ==
    (passes >= 1 /\ Undisturbed)
        => /\ RowSet(action_transactions) = RowSet(rowsAfterFirst)
           /\ Len(action_transactions) = Len(rowsAfterFirst)

(* two passes over an action that has no register transaction (it is
   enriched again in every pass) and one that got the placeholder *)
C8_Witness ==
    /\ passes >= 2
    /\ Undisturbed
    /\ \E i \in 1..Len(action_transactions) :
          /\ action_transactions[i].actionID = 3
          /\ action_transactions[i].txType = "finalize"
    /\ \E i \in 1..Len(action_transactions) :
          action_transactions[i].txHash = PlaceholderTxHash

RowsOfAction(id) ==
    {i \in 1..Len(action_transactions) : action_transactions[i].actionID = id}

(* action id has exactly one row, the placeholder *)
OnlyPlaceholder(id) ==
    /\ Cardinality(RowsOfAction(id)) = 1
    /\ \A i \in RowsOfAction(id) :
          /\ action_transactions[i].txType = "register"
          /\ action_transactions[i].txHash = PlaceholderTxHash

(* the loop body runs for action id, its three searches answer with no
   transaction and the placeholder is written *)
EnrichedWithNothing(id) ==
    /\ epc = "process"
    /\ Head(batch).ActionID = id
    /\ \A txType \in TxTypes : ChainTxsOf(id, txType, chainHeight) = <<>>
    /\ \E moduleOk \in BOOLEAN, writeOk \in WriteOutcomes :
          "register" \in writeOk /\ ProcessAction(TxTypes, moduleOk, writeOk)

(* C9: when the three searches for an action return no transaction, the pass
   leaves exactly one row for it, the register placeholder with hash
   _NO_TX_FOUND_; from then on every step of every pass leaves exactly that
   row and no batch selects the action again. *)
C9_PlaceholderOnce ==
    /\ [][\A id \in ActionIDs : EnrichedWithNothing(id) => OnlyPlaceholder(id)']_vars
    /\ [][\A id \in ActionIDs :
             OnlyPlaceholder(id)
                => /\ OnlyPlaceholder(id)'
                   /\ \A k \in 1..Len(batch') : batch'[k].ActionID # id]_vars

(* the placeholder of action 2 was there when the first pass ended, a second
   pass has run, and the chain meanwhile has a register transaction for it *)
C9_Witness ==
    /\ passes >= 2
    /\ OnlyPlaceholder(2)
    /\ \E i \in 1..Len(rowsAfterFirst) :
          rowsAfterFirst[i].actionID = 2 /\ rowsAfterFirst[i].txHash = PlaceholderTxHash
    /\ ChainTxsOf(2, "register", chainHeight) # <<>>

(* the transaction hashes a response shows: the flattened ids and the list *)
HashesShown(item) ==
    {f.ID[1] : f \in {g \in {item.RegisterTx, item.FinalizeTx, item.ApproveTx} :
                        g.ID # Null}}
      \cup (IF item.Transactions = Null THEN {}
            ELSE {item.Transactions[1][k].TxHash : k \in 1..Len(item.Transactions[1])})

(* C10: no response of the action list or of the action detail shows the
   hash _NO_TX_FOUND_, in a flattened id or in the transaction list, whatever
   rows the enricher has written. *)
C10_PlaceholderHidden ==
    response # Null
        => \A k \in 1..Len(response[1].items) :
              PlaceholderTxHash \notin HashesShown(response[1].items[k])

(* a response built while a placeholder row of one of its actions was in the
   table: that action shows an empty transaction list *)
C10_Witness ==
    /\ response # Null
    /\ response[1].hidden > 0
    /\ \E k \in 1..Len(response[1].items) :
          /\ response[1].items[k].Transactions = Some(<<>>)
          /\ response[1].items[k].RegisterTx.ID = Null

----------------------------------------------------------------------------
(* The transaction store's keys *)

(* C11: the transaction store never holds two rows for the same action and
   transaction type, and never more than three rows for one action, whatever
   the searches answer (several transactions for one search included) and
   however many passes run. *)
C11_OneRowPerType ==
    /\ \A i, j \in 1..Len(action_transactions) :
          (/\ action_transactions[i].actionID = action_transactions[j].actionID
           /\ action_transactions[i].txType = action_transactions[j].txType) => i = j
    /\ \A id \in ActionIDs : Cardinality(RowsOfAction(id)) <= 3

(* the finalize search of action 3 answered with two transactions and both
   were written: the row holds the one written last *)
C11_Witness ==
    /\ Len(ChainTxsOf(3, "finalize", chainHeight)) = 2
    /\ \E i \in RowsOfAction(3) :
          /\ action_transactions[i].txType = "finalize"
          /\ action_transactions[i].txHash = "F3b"
    /\ passes >= 2

----------------------------------------------------------------------------
(* SpecLatest: latestState and latestIPAddress applied to the histories the
   chain can serve: up to MaxHistory entries in any order, heights positive,
   zero, negative or not a number. *)

HeightStrings == {"5", "10", "20", "0", "-1", ""}

SeqsUpTo(S, n) == UNION {[1..k -> S] : k \in 0..n}

StateHistories ==
    SeqsUpTo([state : {"SUPERNODE_STATE_ACTIVE", "SUPERNODE_STATE_STOPPED"},
              height : HeightStrings], MaxHistory)

IPHistories ==
    SeqsUpTo([address : {"10.0.0.1:4444", "10.0.0.2:4444"},
              height : HeightStrings], MaxHistory)

InitLatest ==
    /\ InitSupernodes
    /\ InitEnricher
    /\ fnIn \in {[fn |-> "latestState", arg |-> h] : h \in StateHistories}
                \cup {[fn |-> "latestIPAddress", arg |-> h] : h \in IPHistories}
    /\ fnOut = Null
    /\ InitHistory
    /\ InitLoops

(* syncSupernodes deriving currentState and currentStateHeight *)
ApplyLatestState ==
    /\ fnOut = Null
    /\ fnIn.fn = "latestState"
    /\ fnOut' = Some(latestState(fnIn.arg))
    /\ UNCHANGED <<svars, evars, fnIn, hvars, rvars, mvars, lvars, cvars>>

(* syncSupernodes deriving ipAddress *)
ApplyLatestIPAddress ==
    /\ fnOut = Null
    /\ fnIn.fn = "latestIPAddress"
    /\ fnOut' = Some(latestIPAddress(fnIn.arg))
    /\ UNCHANGED <<svars, evars, fnIn, hvars, rvars, mvars, lvars, cvars>>

NextLatest == ApplyLatestState \/ ApplyLatestIPAddress

SpecLatest == InitLatest /\ [][NextLatest]_vars

(* the entries of a history whose height is numerically maximal *)
MaximalEntries(entries) ==
    {m \in 1..Len(entries) :
        \A k \in 1..Len(entries) :
            ParseInt(entries[k].height).v <= ParseInt(entries[m].height).v}

AllHeightsParse(entries) ==
    \A k \in 1..Len(entries) : ParseInt(entries[k].height).ok

(* C12: for every non-empty history whose heights are 64-bit integers, the
   derived state and height, and the derived IP address, are those of an
   entry whose height is numerically maximal, wherever it stands. *)
C12_LatestByHeight ==
    (fnOut # Null /\ Len(fnIn.arg) > 0 /\ AllHeightsParse(fnIn.arg))
        => \E m \in MaximalEntries(fnIn.arg) :
              IF fnIn.fn = "latestState"
              THEN fnOut[1] = <<fnIn.arg[m].state, fnIn.arg[m].height>>
              ELSE fnOut[1] = fnIn.arg[m].address

----------------------------------------------------------------------------
(* SpecList: the supernode metrics list over the supernodes table, while the
   chain sync and the prober write it. *)

(* "metricsReport"->'ports'->>key : SQL NULL when the document, the ports
   object or the key is missing, else the value as text *)
PortsText(row, key) ==
    IF row.metricsReport = Null THEN Null
    ELSE IF "ports" \notin DOMAIN row.metricsReport[1] THEN Null
    ELSE IF key \notin DOMAIN row.metricsReport[1].ports THEN Null
    ELSE Some(IF row.metricsReport[1].ports[key] THEN "true" ELSE "false")

(* SQL comparisons and OR under three-valued logic (Null = unknown) *)
SqlEq(x, text) == IF x = Null THEN Null ELSE Some(x[1] = text)
SqlNe(x, text) == IF x = Null THEN Null ELSE Some(x[1] # text)
SqlOr(conds) ==
    IF Some(TRUE) \in conds THEN Some(TRUE)
    ELSE IF Null \in conds THEN Null ELSE Some(FALSE)

(* ORDER BY "supernodeAccount" ASC *)
AccountsAscending == <<"sn1", "sn2">>

(* faulty variant: "available" looks at the status API flag alone *)
StatusConditions_flagOnly(row, status) ==
    CASE status = "available" -> {Some(row.isStatusApiAvailable = TRUE)}
      [] status = "unavailable" -> {Some(row.isStatusApiAvailable = FALSE)}
      [] OTHER -> {}

(* the conditions the status filter adds to the WHERE clause *)
StatusConditions(row, status) ==
    CASE status = "available" ->
            {Some(row.isStatusApiAvailable = TRUE),
             SqlEq(PortsText(row, "port1"), "true"),
             SqlEq(PortsText(row, "p2p"), "true")}
      [] status = "unavailable" ->
            {SqlOr({Some(row.isStatusApiAvailable = FALSE),
                    SqlNe(PortsText(row, "port1"), "true"),
                    SqlNe(PortsText(row, "p2p"), "true")})}
      [] OTHER -> {}

(* ListSupernodeMetricsFiltered: the rows whose conditions are all true, by
   account, cut at limit *)
ListSupernodeMetricsFiltered(tbl, f) ==
    LET keep(a) ==
            /\ a \in DOMAIN tbl
            /\ \A c \in StatusConditions(tbl[a], f.Status) : c = Some(TRUE)
            /\ tbl[a].failedProbeCounter >= f.MinFailed
        results == SelectSeq(AccountsAscending, keep)
    IN [accounts |-> SubSeq(results, 1, IF Len(results) > f.Limit THEN f.Limit
                                        ELSE Len(results)),
        hasMore |-> Len(results) > f.Limit]

(* handlers.ListSupernodesMetrics for ?status=&minFailedProbeCounter=&limit= *)
ListSupernodesMetrics(status, minFailed, limit) ==
    /\ pc["main"] = "serving"
    /\ LET f == [Status |-> status, MinFailed |-> minFailed, Limit |-> limit]
           got == ListSupernodeMetricsFiltered(supernodes, f)
       IN response' = Some([filter |-> f, accounts |-> got.accounts,
                            hasMore |-> got.hasMore])
    /\ UNCHANGED <<svars, xvars, actions, action_transactions, actionModuleAddr, epc,
                   minID, batch, batchLen, passes, firstPassInput, rowsAfterFirst,
                   perturbed>>

NextList ==
    \/ Deliver
    \/ \E ok \in BOOLEAN : Quiet /\ Start(ok)
    \/ Quiet /\ RefreshValidators
    \/ \E a \in Accounts, h \in 0..MaxChainHeight : Quiet /\ SyncSupernode(a, h)
    \/ \E a \in Accounts, o1 \in BOOLEAN, o2 \in BOOLEAN, st \in fetchStatus :
          Quiet /\ ProbeSupernode(a, o1, o2, st, clock)
    \/ \E status \in {"available", "unavailable", "any"}, minFailed \in {0, 1},
          limit \in {1, 2} :
          Quiet /\ ListSupernodesMetrics(status, minFailed, limit)
    \/ Quiet /\ ChainAdvance

SpecList == Init /\ [][NextList]_vars

(* the row's stored probe result says: status API available, port1 open,
   P2P port open *)
StoredProbeAllOpen(row) ==
    /\ row.isStatusApiAvailable
    /\ row.metricsReport # Null
    /\ "ports" \in DOMAIN row.metricsReport[1]
    /\ row.metricsReport[1].ports.port1
    /\ row.metricsReport[1].ports.p2p

(* C13: a list request with status=available (no failed-probe threshold, the
   page large enough) returns exactly the supernodes whose stored probe
   result has the status API available, port1 open and the P2P port open. *)
C13_AvailableFilter ==
    (/\ response # Null
     /\ response[1].filter.Status = "available"
     /\ response[1].filter.MinFailed = 0
     /\ ~response[1].hasMore)
        => {response[1].accounts[k] : k \in 1..Len(response[1].accounts)}
              = {a \in DOMAIN supernodes : StoredProbeAllOpen(supernodes[a])}

(* an "available" list that returns sn1, probed with everything open, and
   leaves out sn2, which no probe has found open *)
C13_Witness ==
    /\ response # Null
    /\ response[1].filter.Status = "available"
    /\ response[1].filter.MinFailed = 0
    /\ response[1].accounts = <<"sn1">>
    /\ "sn2" \in DOMAIN supernodes

----------------------------------------------------------------------------
(* SpecSync: the periodic supernode sync and a manually triggered run side
   by side, while the chain produces blocks.  loopSupernodes does not take
   part in the single-flight guard: only manual runs exclude one another. *)

(* loopSupernodes: the select receives the next tick and the loop body runs
   again *)
LoopSupernodesTick ==
    /\ pc["loopSupernodes"] = "wait"
    /\ pc' = [pc EXCEPT !["loopSupernodes"] = "fetch"]
    /\ UNCHANGED <<supernodes, validatorMonikers, syncRunning, syncMu, queue, obs,
                   httpStatus, clock, chainHeight, failedWrites, lastOkVersion,
                   lastOkObserved, evars, xvars>>

(* loopSupernodes inside syncSupernodes *)
LoopSupernodesStep ==
    \/ \E ok \in BOOLEAN : FetchSupernodes("loopSupernodes", ok)
    \/ \E dbOk \in BOOLEAN : UpsertNext("loopSupernodes", dbOk)

NextSync ==
    \/ \E ok \in BOOLEAN : Start(ok)
    \/ TriggerLock("h1")
    \/ TriggerCheck("h1")
    \/ TriggerStart("h1")
    \/ ManualStep("m1")
    \/ RequestEnds("m1")
    \/ RunDeferred("m1")
    \/ LoopSupernodesTick
    \/ LoopSupernodesStep
    \/ ChainAdvance

SpecSync == Init /\ [][NextSync]_vars

(* the row's chain-owned columns, moniker aside, are those a sync derives
   from the chain at tip h *)
Reflects(row, a, h) ==
    \A c \in ChainColumns \ {"validatorMoniker"} :
        row[c] = InsertedRow(SupernodeRec(ChainSupernode(a, h), Null))[c]

(* the latest chain tip the row's chain-owned columns are up to date with *)
Newest(row, a) ==
    CHOOSE h \in 0..MaxChainHeight :
        /\ Reflects(row, a, h)
        /\ \A k \in (h+1)..MaxChainHeight : ~Reflects(row, a, k)

(* C14: every row's chain-owned columns are those of some chain sync, and no
   write puts values fetched earlier over values fetched later: the chain
   tip a row is up to date with never goes back, also while the periodic
   sync and a manual run are both in progress. *)
C14_ChainColumnsLatest ==
    /\ [](\A a \in DOMAIN supernodes :
             \E h \in 0..MaxChainHeight : Reflects(supernodes[a], a, h))
    /\ [][\A a \in DOMAIN supernodes :
             Newest(supernodes'[a], a) >= Newest(supernodes[a], a)]_vars

----------------------------------------------------------------------------
(* SpecMoniker: the validator moniker of a supernode row across chain syncs,
   validator refreshes and restarts of the process.  A restart loses the
   in-memory moniker map; the table stays. *)

(* main: the process is started again on the same database: NewRunner
   returns a Runner with a nil moniker map and no goroutine *)
Restart ==
    /\ pc["main"] = "serving"
    /\ validatorMonikers' = Null
    /\ pc' = [p \in Procs |-> IF p = "main" THEN "new"
                              ELSE IF p \in Handlers THEN "idle" ELSE "none"]
    /\ UNCHANGED <<supernodes, syncRunning, syncMu, queue, obs, httpStatus, clock,
                   chainHeight, failedWrites, lastOkVersion, lastOkObserved, evars, xvars>>

(* the loop body of syncSupernodes, with what it carried and found noted *)
SyncSupernodeLogged(a, h) ==
    /\ SyncSupernodeWrite(a, h)
    /\ syncLog' = Some([account |-> a,
                        carried |-> SupernodeRec(ChainSupernode(a, h),
                                                 validatorMonikers).ValidatorMoniker,
                        before |-> IF a \in DOMAIN supernodes
                                   THEN supernodes[a].validatorMoniker ELSE Null])
    /\ UNCHANGED <<fvars, lvars, cvars, rvars, mvars>>

NextMoniker ==
    \/ \E ok \in BOOLEAN : Start(ok)
    \/ RefreshValidators
    \/ \E a \in Accounts, h \in 0..MaxChainHeight : SyncSupernodeLogged(a, h)
    \/ ChainAdvance
    \/ Restart

SpecMoniker == Init /\ [][NextMoniker]_vars

(* C15: after a chain-sync write on an existing row, the row's moniker is the
   moniker the write carried when that is non-empty, and the moniker the row
   had before when the write carried the empty string. *)
C15_MonikerNotErased ==
    [][\A a \in DOMAIN supernodes, h \in 0..MaxChainHeight :
          \/ LET new == SupernodeRec(ChainSupernode(a, h), validatorMonikers).ValidatorMoniker
             IN supernodes'[a].validatorMoniker =
                   IF new = "" THEN supernodes[a].validatorMoniker ELSE Some(new)
          \/ ~SyncSupernodeLogged(a, h)]_vars

(* the last chain-sync write carried an empty moniker to a row that had
   "alice", and the row still has it *)
C15_Witness ==
    /\ syncLog # Null
    /\ syncLog[1].carried = ""
    /\ syncLog[1].before = Some("alice")
    /\ supernodes[syncLog[1].account].validatorMoniker = Some("alice")

----------------------------------------------------------------------------
(* SpecStart: Runner.Start step by step (its own validator sync, then the
   go statements), followed by the validators loop and the supernodes loop. *)

(* Start: `if err := r.syncValidators(ctx); err != nil { log }` *)
StartSync(ok) ==
    /\ pc["main"] = "new"
    /\ validatorMonikers' = syncValidators(validatorMonikers, chainHeight, ok)
    /\ pc' = [pc EXCEPT !["main"] = "synced"]
    /\ UNCHANGED <<supernodes, syncRunning, syncMu, queue, obs, httpStatus, clock,
                   chainHeight, failedWrites, lastOkVersion, lastOkObserved, evars, xvars>>

(* faulty variant: the loops are spawned while Start has not yet run its
   validator sync *)
StartSpawn_early ==
    /\ pc["main"] = "new"
    /\ pc["loopSupernodes"] = "none"
    /\ pc' = [pc EXCEPT !["loopValidators"] = "run",
                        !["loopSupernodes"] = "fetch", !["loopProbes"] = "list"]
    /\ UNCHANGED <<supernodes, validatorMonikers, syncRunning, syncMu, queue, obs,
                   httpStatus, clock, chainHeight, failedWrites, lastOkVersion,
                   lastOkObserved, evars, xvars>>

(* Start: the go statements; Start returns and main goes on to serve *)
StartSpawn ==
    /\ pc["main"] = "synced"
    /\ pc' = [pc EXCEPT !["main"] = "serving", !["loopValidators"] = "run",
                        !["loopSupernodes"] = "fetch", !["loopProbes"] = "list"]
    /\ UNCHANGED <<supernodes, validatorMonikers, syncRunning, syncMu, queue, obs,
                   httpStatus, clock, chainHeight, failedWrites, lastOkVersion,
                   lastOkObserved, evars, xvars>>

(* a pass of loopValidators, with or without success *)
LoopValidatorsPass(ok) ==
    /\ pc["loopValidators"] = "run"
    /\ validatorMonikers' = syncValidators(validatorMonikers, chainHeight, ok)
    /\ UNCHANGED <<supernodes, syncRunning, syncMu, pc, queue, obs, httpStatus, clock,
                   chainHeight, failedWrites, lastOkVersion, lastOkObserved, evars, xvars>>

NextStart ==
    \/ \E ok \in BOOLEAN : StartSync(ok)
    \/ StartSpawn
    \/ \E ok \in BOOLEAN : LoopValidatorsPass(ok)
    \/ LoopSupernodesTick
    \/ LoopSupernodesStep
    \/ ChainAdvance

SpecStart == Init /\ [][NextStart]_vars

(* a supernode sync is under way in some goroutine *)
SyncUnderWay == \E p \in Syncers : pc[p] \in {"fetch", "write"}

(* C16 as stated: whenever a supernode sync is under way the moniker map has
   been populated. *)
C16_MapPopulatedBeforeSync ==
    [](SyncUnderWay => validatorMonikers # Null)

(* C16: no supernode sync is under way before Start's own validator sync has
   returned; when that sync succeeded the map is populated from then on, and
   when it failed the map is still nil when the loops are spawned. *)
C16_SyncAfterValidatorSync ==
    /\ [](SyncUnderWay => pc["main"] = "serving")
    /\ [][\A ok \in BOOLEAN :
             StartSync(ok) => validatorMonikers' =
                                 IF ok THEN Some(MonikerMap(ChainValidators(chainHeight)))
                                 ELSE Null]_vars
    /\ [][validatorMonikers # Null => validatorMonikers' # Null]_vars

(* the first pass of loopSupernodes has written sn1 with the moniker the
   initial validator sync fetched, the validators loop not having replaced
   the map since *)
C16_Witness ==
    /\ pc["main"] = "serving"
    /\ "sn1" \in DOMAIN supernodes
    /\ supernodes["sn1"].validatorMoniker = Some("alice")
    /\ validatorMonikers = Some(MonikerMap(ChainValidators(0)))
    /\ chainHeight = 0
    /\ pc["loopSupernodes"] = "write"

----------------------------------------------------------------------------
(* SpecLoops: the five loop goroutines between their passes: the ticker of
   each loop, the select on tick or cancellation, the enricher's initial
   sleep and its drain of the ticker.  What a pass does is left out; a pass
   under a cancelled context ends like any other. *)

Enricher == "loopActionTxEnricher"

(* Start: the five go statements.  The four sync loops run their first pass
   at once; the enricher first sleeps 30 seconds *)
SpawnLoops ==
    /\ \A l \in Loops : loop[l] = "none"
    /\ loop' = [l \in Loops |-> IF l = Enricher THEN "sleep" ELSE "pass"]
    /\ UNCHANGED <<svars, evars, fvars, hvars, rvars, mvars, cvars, drained, cancelled, ticks>>

(* main: bgCancel() *)
Cancel ==
    /\ \E l \in Loops : loop[l] # "none"
    /\ ~cancelled
    /\ cancelled' = TRUE
    /\ UNCHANGED <<svars, evars, fvars, hvars, rvars, mvars, cvars, drained, loop, ticks>>

(* loopActionTxEnricher: time.Sleep(30 * time.Second) returns, the ticker is
   created and the first pass begins *)
SleepDone ==
    /\ loop[Enricher] = "sleep"
    /\ loop' = [loop EXCEPT ![Enricher] = "pass"]
    /\ UNCHANGED <<svars, evars, fvars, hvars, rvars, mvars, cvars, drained, cancelled, ticks>>

(* the runtime sends a tick on t.C; the channel holds one tick and a tick
   that finds it full is dropped.  The tick is noted with whether a pass of
   the loop was running when it was sent *)
Tick(l) ==
    /\ loop[l] \in {"pass", "drain", "select"}
    /\ ticks[l] = Null
    /\ ticks' = [ticks EXCEPT ![l] = Some(IF loop[l] = "pass" THEN "during" ELSE "after")]
    /\ UNCHANGED <<svars, evars, fvars, hvars, rvars, mvars, cvars, drained, cancelled, loop>>

(* faulty variant: the enricher goes to its select like the other loops *)
PassDone_noDrain(l) ==
    /\ loop[l] = "pass"
    /\ loop' = [loop EXCEPT ![l] = "select"]
    /\ UNCHANGED <<svars, evars, fvars, hvars, rvars, mvars, cvars, drained, cancelled, ticks>>

(* the pass of the loop returns; the enricher goes on to drainTicker, the
   other loops to their select *)
PassDone(l) ==
    /\ loop[l] = "pass"
    /\ loop' = [loop EXCEPT ![l] = IF l = Enricher THEN "drain" ELSE "select"]
    /\ UNCHANGED <<svars, evars, fvars, hvars, rvars, mvars, cvars, drained, cancelled, ticks>>

(* drainTicker: one round of its loop: a pending tick is received and thrown
   away, or the default case returns *)
DrainRound ==
    /\ loop[Enricher] = "drain"
    /\ IF ticks[Enricher] # Null
       THEN ticks' = [ticks EXCEPT ![Enricher] = Null] /\ drained' = TRUE /\ UNCHANGED loop
       ELSE loop' = [loop EXCEPT ![Enricher] = "select"] /\ UNCHANGED <<ticks, drained>>
    /\ UNCHANGED <<svars, evars, fvars, hvars, rvars, mvars, cvars, cancelled>>

(* select: case <-ctx.Done(): return (the deferred t.Stop() runs) *)
SelectDone(l) ==
    /\ loop[l] = "select"
    /\ cancelled
    /\ loop' = [loop EXCEPT ![l] = "exited"]
    /\ ticks' = [ticks EXCEPT ![l] = Null]
    /\ UNCHANGED <<svars, evars, fvars, hvars, rvars, mvars, cvars, drained, cancelled>>

(* select: case <-t.C: the loop body runs again.  When the tick and the
   cancellation are both ready, select picks either *)
SelectTick(l) ==
    /\ loop[l] = "select"
    /\ ticks[l] # Null
    /\ loop' = [loop EXCEPT ![l] = "pass"]
    /\ ticks' = [ticks EXCEPT ![l] = Null]
    /\ UNCHANGED <<svars, evars, fvars, hvars, rvars, mvars, cvars, drained, cancelled>>

NextLoops ==
    \/ SpawnLoops
    \/ Cancel
    \/ SleepDone
    \/ \E l \in Loops : Tick(l)
    \/ \E l \in Loops : PassDone(l)
    \/ DrainRound
    \/ \E l \in Loops : SelectDone(l)
    \/ \E l \in Loops : SelectTick(l)

SpecLoops == Init /\ [][NextLoops]_vars

(* C17: once the root context is cancelled no loop starts a pass, and a loop
   that is sleeping or waiting for a tick does nothing but exit. *)
C17_NoPassAfterCancel ==
    [][cancelled => \A l \in Loops :
                       /\ loop'[l] = "pass" => loop[l] = "pass"
                       /\ loop[l] \in {"sleep", "select"}
                             => loop'[l] \in {loop[l], "exited"}]_vars

(* C18: every pass of the enricher but the first starts on a tick that was
   sent after the pass before it had returned: a tick sent while a pass was
   running never starts the next pass. *)
C18_DrainedTicks ==
    [][(loop[Enricher] = "select" /\ loop'[Enricher] = "pass")
          => ticks[Enricher] = Some("after")]_vars

(* drainTicker has thrown away the tick of a pass that overran its interval,
   and the next pass has started on a later tick *)
C18_Witness ==
    /\ drained
    /\ loop[Enricher] = "pass"
    /\ ~cancelled


----------------------------------------------------------------------------
(* SpecCache: the module-address cache of lumera.Client.  The client is
   the one NewClient returns, or that client after SetActionModuleAccount;
   GetActionModuleAccount is then called again and again, the chain
   answering each request with an error, an empty address or an address. *)

MaxLookups == 5      \* calls of GetActionModuleAccount in one behaviour

Addresses == {ModuleAccount, "lumera1other"}

(* what doJSON gives for /cosmos/auth/v1beta1/module_accounts/action *)
Replies ==
    {[ok |-> FALSE, address |-> ""]} \cup
    {[ok |-> TRUE, address |-> a] : a \in Addresses \cup {""}}

(* SetActionModuleAccount(addr) on the new client *)
SetActionModuleAccount(addr) ==
    /\ actionModuleAddr = addr
    /\ moduleAddrFetched = TRUE

InitCache ==
    /\ InitSupernodes
    /\ InitEnricherState
    /\ InitLookups
    /\ InitHelpers
    /\ InitHistory
    /\ InitLoops
    /\ moduleAddrFetched \in BOOLEAN
    /\ actionModuleAddr \in Addresses \cup {""}
    /\ \/ InitClient
       \/ SetActionModuleAccount(actionModuleAddr)

(* the guard of GetActionModuleAccount: the cached value is available *)
Cached == moduleAddrFetched /\ actionModuleAddr # ""

(* faulty variant: the cache is never consulted *)
GetActionModuleAccountCall_noCache(reply) ==
    /\ lookups < MaxLookups
    /\ lookups' = lookups + 1
    /\ fnIn' = [fn |-> "GetActionModuleAccount", arg |-> reply]
    /\ requests' = requests + 1
    /\ IF ~reply.ok \/ reply.address = ""
       THEN /\ fnOut' = [addr |-> "", err |-> TRUE]
            /\ UNCHANGED <<actionModuleAddr, moduleAddrFetched, firstAddr>>
       ELSE /\ actionModuleAddr' = reply.address
            /\ moduleAddrFetched' = TRUE
            /\ fnOut' = [addr |-> reply.address, err |-> FALSE]
            /\ firstAddr' = IF firstAddr = Null THEN Some(reply.address) ELSE firstAddr
    /\ UNCHANGED <<svars, hvars, rvars, mvars, lvars, actions, action_transactions, epc, minID,
                   batch, batchLen, passes, firstPassInput, rowsAfterFirst,
                   perturbed, response>>

(* one call of GetActionModuleAccount; reply is what the chain answers if
   the call sends its request *)
GetActionModuleAccountCall(reply) ==
    /\ lookups < MaxLookups
    /\ lookups' = lookups + 1
    /\ fnIn' = [fn |-> "GetActionModuleAccount", arg |-> reply]
    /\ IF Cached
       THEN /\ fnOut' = [addr |-> actionModuleAddr, err |-> FALSE]
            /\ firstAddr' = IF firstAddr = Null THEN Some(actionModuleAddr) ELSE firstAddr
            /\ UNCHANGED <<actionModuleAddr, moduleAddrFetched, requests>>
       ELSE /\ requests' = requests + 1
            /\ IF ~reply.ok \/ reply.address = ""
               THEN /\ fnOut' = [addr |-> "", err |-> TRUE]
                    /\ UNCHANGED <<actionModuleAddr, moduleAddrFetched, firstAddr>>
               ELSE /\ actionModuleAddr' = reply.address
                    /\ moduleAddrFetched' = TRUE
                    /\ fnOut' = [addr |-> reply.address, err |-> FALSE]
                    /\ firstAddr' = IF firstAddr = Null THEN Some(reply.address)
                                    ELSE firstAddr
    /\ UNCHANGED <<svars, hvars, rvars, mvars, lvars, actions, action_transactions, epc, minID,
                   batch, batchLen, passes, firstPassInput, rowsAfterFirst,
                   perturbed, response>>

NextCache == \E reply \in Replies : GetActionModuleAccountCall(reply)

SpecCache == InitCache /\ [][NextCache]_vars

(* C19: once a lookup has succeeded, every later lookup returns the address
   of that first success and sends no request; a lookup that fails (request
   error or empty address) leaves nothing cached, and a lookup made with
   nothing cached sends a request. *)
C19_ModuleAddressCache ==
    [][lookups' = lookups + 1 =>
         /\ firstAddr # Null =>
               /\ fnOut' = [addr |-> firstAddr[1], err |-> FALSE]
               /\ requests' = requests
         /\ fnOut'.err => ~Cached'
         /\ ~Cached => requests' = requests + 1]_vars

(* a lookup failed, the next one fetched again and succeeded, and a third
   one returned the cached address although the chain would by then have
   answered with another one *)
C19_Witness ==
    /\ lookups = 3
    /\ requests = 2
    /\ firstAddr = Some(ModuleAccount)
    /\ fnIn = [fn |-> "GetActionModuleAccount",
               arg |-> [ok |-> TRUE, address |-> "lumera1other"]]
    /\ fnOut = [addr |-> ModuleAccount, err |-> FALSE]


----------------------------------------------------------------------------
(* SpecFlow: extractTransferFlow applied to one transaction of an action
   created by "creator".  The transaction carries up to MaxEvents events at
   the top level and up to MaxLogs logs of at most one event each; the
   module address is known or not. *)

MaxEvents == 2       \* events at the top level of a TxResult
MaxLogs == 2         \* entries of TxResult.Logs

FlowEvents ==
    {Transfer("other", "other2", "1"),
     Transfer("other2", "other", "2"),
     Transfer("creator", "other", "3"),
     Transfer("other", ModuleAccount, "4"),
     Transfer("creator", ModuleAccount, "5"),
     Event("transfer", Null, Null, Some("6")),
     Event("transfer", Some("creator"), Null, Some("7")),
     Event("message", Some("creator"), Some(ModuleAccount), Null)}

FlowLogs == {[Events |-> evs] : evs \in SeqsUpTo(FlowEvents, 1)}

FlowTxResults ==
    {[txhash |-> "R1", height |-> "10", timestamp |-> "1970-01-01T00:01:40Z",
      signer |-> "creator", Events |-> evs, Logs |-> logs] :
        evs \in SeqsUpTo(FlowEvents, MaxEvents), logs \in SeqsUpTo(FlowLogs, MaxLogs)}

(* the events of a finalize or approve transaction *)
SettleEvents ==
    {Transfer(ModuleAccount, "sn1", "1"),
     Transfer(ModuleAccount, "sn2", "2"),
     Transfer(ModuleAccount, "other", "3"),
     Transfer("creator", "sn1", "4"),
     Transfer("creator", "sn2", "5"),
     Transfer("other", "other2", "6"),
     Transfer("creator", "other", "7"),
     Event("transfer", Null, Some("sn1"), Some("8")),
     Event("transfer", Null, Some("other"), Some("9"))}

(* finalize and approve transactions: the signer is unknown, the assigned
   supernode or another one; the action has a supernode assigned or not *)
SettleInputs ==
    {[fn |-> "extractTransferFlow",
      arg |-> [action |-> [Creator |-> "creator", SupernodeAccount |-> sn],
               txType |-> ty,
               txResult |-> [txhash |-> "F1", height |-> "20",
                             timestamp |-> "1970-01-01T00:03:20Z", signer |-> signer,
                             Events |-> evs, Logs |-> logs],
               moduleAddr |-> m, txSigner |-> signer]] :
        sn \in {"", "sn1"}, ty \in {"finalize", "approve"},
        signer \in {"", "sn1", "sn2"},
        evs \in SeqsUpTo(SettleEvents, MaxEvents),
        logs \in SeqsUpTo({[Events |-> l] : l \in SeqsUpTo(SettleEvents, 1)}, MaxLogs - 1),
        m \in {"", ModuleAccount}}

RegisterInputs ==
    {[fn |-> "extractTransferFlow",
      arg |-> [action |-> [Creator |-> "creator", SupernodeAccount |-> "sn1"],
               txType |-> "register", txResult |-> tx, moduleAddr |-> m,
               txSigner |-> tx.signer]] :
        tx \in FlowTxResults, m \in {"", ModuleAccount}}

FlowInputs == RegisterInputs \cup SettleInputs

InitFlow ==
    /\ InitSupernodes
    /\ InitEnricher
    /\ fnIn \in FlowInputs
    /\ fnOut = Null
    /\ InitHistory
    /\ InitLoops

(* parseTxResult calling extractTransferFlow *)
ApplyExtractTransferFlow ==
    /\ fnOut = Null
    /\ fnIn.fn = "extractTransferFlow"
    /\ fnOut' = Some(extractTransferFlow(fnIn.arg.action, fnIn.arg.txType,
                                         fnIn.arg.txResult, fnIn.arg.moduleAddr,
                                         fnIn.arg.txSigner))
    /\ UNCHANGED <<svars, evars, fnIn, hvars, rvars, mvars, lvars, cvars>>

NextFlow == ApplyExtractTransferFlow

SpecFlow == InitFlow /\ [][NextFlow]_vars

RECURSIVE Concat(_)
Concat(seqs) == IF seqs = <<>> THEN <<>> ELSE Head(seqs) \o Concat(Tail(seqs))

(* the transfers of a transaction in the order of the claim: the top-level
   events, then the events of each log, keeping the transfer events that
   name a sender or a recipient *)
TransfersInOrder(tx) ==
    LET all == tx.Events \o Concat([i \in 1..Len(tx.Logs) |-> tx.Logs[i].Events])
        kept == SelectSeq(all, LAMBDA e : /\ e.Type = "transfer"
                                          /\ (e.sender # Null \/ e.recipient # Null))
    IN [i \in 1..Len(kept) |->
           [Payer |-> kept[i].sender, Payee |-> kept[i].recipient,
            Amount |-> kept[i].amount]]

Lowest(S) == CHOOSE i \in S : \A j \in S : i <= j

(* C20: for a register transaction the selected transfer is the first one
   paid to the module address; when there is none (or the address is not
   known), the first one sent by the action's creator; when there is none,
   the first transfer; and nothing exactly when there is no transfer. *)
C20_RegisterFlow ==
    (fnOut # Null /\ fnIn.arg.txType = "register") =>
        LET a == fnIn.arg
            tr == TransfersInOrder(a.txResult)
            toModule == {i \in 1..Len(tr) :
                            a.moduleAddr # "" /\ tr[i].Payee = Some(a.moduleAddr)}
            fromCreator == {i \in 1..Len(tr) : tr[i].Payer = Some(a.action.Creator)}
            selected == fnOut[1]
        IN IF tr = <<>> THEN selected = Null
           ELSE IF toModule # {} THEN selected = Some(tr[Lowest(toModule)])
           ELSE IF fromCreator # {} THEN selected = Some(tr[Lowest(fromCreator)])
           ELSE selected = Some(tr[1])

(* a transfer sent by the creator at the top level and a transfer to the
   module address in the second log: the one to the module is selected *)
C20_Witness ==
    /\ fnOut # Null
    /\ fnIn.arg.txType = "register"
    /\ fnIn.arg.moduleAddr = ModuleAccount
    /\ fnIn.arg.txResult.Events = <<Transfer("creator", "other", "3")>>
    /\ fnIn.arg.txResult.Logs = <<[Events |-> <<Transfer("other", "other2", "1")>>],
                                  [Events |-> <<Transfer("other", ModuleAccount, "4")>>]>>
    /\ fnOut = Some(Some([Payer |-> Some("other"), Payee |-> Some(ModuleAccount),
                          Amount |-> Some("4")]))


(* the rules of the finalize/approve cascade as sets of positions in the
   collected transfers tr; a rule that names an address applies only when
   that address is known *)
SettleRules(a, tr) ==
    LET m == a.moduleAddr
        signer == a.txSigner
        sn == a.action.SupernodeAccount
        idx == 1..Len(tr)
        fromM(i) == m # "" /\ tr[i].Payer = Some(m)
        toSigner(i) == signer # "" /\ tr[i].Payee = Some(signer)
        toSn(i) == sn # "" /\ tr[i].Payee = Some(sn)
    IN <<{i \in idx : fromM(i) /\ toSigner(i)},
         {i \in idx : fromM(i) /\ toSn(i)},
         {i \in idx : fromM(i)},
         {i \in idx : toSigner(i)},
         {i \in idx : toSn(i)},
         {i \in idx : tr[i].Payer # Null /\ tr[i].Payer # Some(a.action.Creator)},
         idx>>

(* C21: for a finalize or approve transaction the selected transfer is the
   first match of the first rule that has a match, in the order: module to
   signer, module to assigned supernode, from module, to signer, to assigned
   supernode, sender other than the creator, first transfer; nothing is
   selected when there is no transfer. *)
C21_SettleFlow ==
    (fnOut # Null /\ fnIn.arg.txType \in {"finalize", "approve"}) =>
        LET a == fnIn.arg
            tr == TransfersInOrder(a.txResult)
            rules == SettleRules(a, tr)
            hit == {r \in 1..7 : rules[r] # {}}
        IN IF tr = <<>> THEN fnOut[1] = Null
           ELSE fnOut[1] = Some(tr[Lowest(rules[Lowest(hit)])])

(* the signer sn2 differs from the assigned supernode sn1; a payment to the
   signer from the creator comes first, then module to sn1 in a log: the
   second rule selects the transfer in the log *)
C21_Witness ==
    /\ fnOut # Null
    /\ fnIn.arg.txType = "finalize"
    /\ fnIn.arg.moduleAddr = ModuleAccount
    /\ fnIn.arg.txSigner = "sn2"
    /\ fnIn.arg.action.SupernodeAccount = "sn1"
    /\ fnIn.arg.txResult.Events = <<Transfer("creator", "sn2", "5"),
                                    Transfer(ModuleAccount, "other", "3")>>
    /\ fnIn.arg.txResult.Logs = <<[Events |-> <<Transfer(ModuleAccount, "sn1", "1")>>]>>
    /\ fnOut = Some(Some([Payer |-> Some(ModuleAccount), Payee |-> Some("sn1"),
                          Amount |-> Some("1")]))


----------------------------------------------------------------------------
(* SpecCoin: decoding of coins.  A Go string is the sequence of its bytes,
   each written as a one-character string; a JSON document is given by its
   kind and content. *)

MaxAmountLen == 2    \* digits of an amount
MaxDenomLen == 3     \* characters of a denom
MaxCoinLen == 3      \* characters of a coin string handed to parseCoinString

(* the characters the inputs are made of *)
CoinChars == {"0", "9", "u", "/"}

(* faulty variant: the two results are returned in the other order *)
parseCoinString_swapped(s) ==
    LET digits == {i \in 0..Len(s) : \A k \in 1..i : s[k] \in DigitChars}
        i == CHOOSE n \in digits : \A m \in digits : m <= n
    IN [amount |-> SubSeq(s, i + 1, Len(s)), denom |-> SubSeq(s, 1, i)]

(* faulty variant: the amount runs up to the last digit of the string *)
parseCoinString_lastDigit(s) ==
    LET digits == {0} \cup {i \in 1..Len(s) : s[i] \in DigitChars}
        i == CHOOSE n \in digits : \A m \in digits : m <= n
    IN [amount |-> SubSeq(s, 1, i), denom |-> SubSeq(s, i + 1, Len(s))]

(* parseCoinString: i is the length of the leading run of digits *)
parseCoinString(s) ==
    LET digits == {i \in 0..Len(s) : \A k \in 1..i : s[k] \in DigitChars}
        i == CHOOSE n \in digits : \A m \in digits : m <= n
    IN [amount |-> SubSeq(s, 1, i), denom |-> SubSeq(s, i + 1, Len(s))]

(* the JSON documents a price arrives as *)
JSONObject(denom, amount) == [kind |-> "object", denom |-> denom, amount |-> amount]
JSONString(s) == [kind |-> "string", s |-> s]
JSONNull == [kind |-> "null"]
JSONNumber == [kind |-> "number"]

(* PriceField.UnmarshalJSON: the struct form when it decodes and is not
   empty, else the string form, else the empty price.  json.Unmarshal of
   null succeeds for both targets and leaves them empty. *)
UnmarshalJSON(data) ==
    LET structOk == data.kind \in {"object", "null"}
        priceStruct == IF data.kind = "object"
                       THEN [denom |-> data.denom, amount |-> data.amount]
                       ELSE [denom |-> <<>>, amount |-> <<>>]
        stringOk == data.kind \in {"string", "null"}
        priceStr == IF data.kind = "string" THEN data.s ELSE <<>>
    IN IF structOk /\ (priceStruct.denom # <<>> \/ priceStruct.amount # <<>>)
       THEN [amount |-> priceStruct.amount, denom |-> priceStruct.denom]
       ELSE IF stringOk THEN parseCoinString(priceStr)
       ELSE [amount |-> <<>>, denom |-> <<>>]

(* the coins of the chain: the amount is a run of digits, the denom is empty
   or starts with a letter *)
Coins ==
    [amount : SeqsUpTo({"0", "9"}, MaxAmountLen),
     denom : {<<>>} \cup {<<"u">> \o t : t \in SeqsUpTo(CoinChars, MaxDenomLen - 1)}]

CoinInputs ==
    {[fn |-> "UnmarshalJSON", arg |-> c] : c \in Coins}
    \cup {[fn |-> "UnmarshalJSON", arg |-> d] : d \in {JSONNull, JSONNumber}}
    \cup {[fn |-> "parseCoinString", arg |-> s, prev |-> Null] :
             s \in SeqsUpTo(CoinChars, MaxCoinLen)}

InitCoin ==
    /\ InitSupernodes
    /\ InitEnricher
    /\ fnIn \in CoinInputs
    /\ fnOut = Null
    /\ InitHistory
    /\ InitLoops

(* a price that arrives in the struct form and in the string form *)
ApplyUnmarshalCoin ==
    /\ fnOut = Null
    /\ fnIn.fn = "UnmarshalJSON"
    /\ fnIn.arg \in Coins
    /\ fnOut' = Some([struct |-> UnmarshalJSON(JSONObject(fnIn.arg.denom, fnIn.arg.amount)),
                      string |-> UnmarshalJSON(JSONString(fnIn.arg.amount \o fnIn.arg.denom))])
    /\ UNCHANGED <<svars, evars, fnIn, hvars, rvars, mvars, lvars, cvars>>

(* a price that is neither an object nor a string *)
ApplyUnmarshalOther ==
    /\ fnOut = Null
    /\ fnIn.fn = "UnmarshalJSON"
    /\ fnIn.arg \notin Coins
    /\ fnOut' = Some(UnmarshalJSON(fnIn.arg))
    /\ UNCHANGED <<svars, evars, fnIn, hvars, rvars, mvars, lvars, cvars>>

ApplyParseCoinString ==
    /\ fnOut = Null
    /\ fnIn.fn = "parseCoinString"
    /\ fnOut' = Some(parseCoinString(fnIn.arg))
    /\ UNCHANGED <<svars, evars, fnIn, hvars, rvars, mvars, lvars, cvars>>

(* the result is written out again, amount first, and handed back *)
Reserialize ==
    /\ fnOut # Null
    /\ fnIn.fn = "parseCoinString"
    /\ fnIn.prev = Null
    /\ fnIn' = [fn |-> "parseCoinString", arg |-> fnOut[1].amount \o fnOut[1].denom,
                prev |-> fnOut]
    /\ fnOut' = Null
    /\ UNCHANGED <<svars, evars, hvars, rvars, mvars, lvars, cvars>>

NextCoin ==
    \/ ApplyUnmarshalCoin
    \/ ApplyUnmarshalOther
    \/ ApplyParseCoinString
    \/ Reserialize

SpecCoin == InitCoin /\ [][NextCoin]_vars

(* C22: a coin decodes to the same (amount, denom) pair, its own, from the
   struct form and from the string form, and the string form is cut before
   its first character that is not a digit. *)
C22_BothEncodings ==
    (fnOut # Null /\ fnIn.fn = "UnmarshalJSON" /\ fnIn.arg \in Coins) =>
        LET r == fnOut[1].string
        IN /\ fnOut[1].struct = fnOut[1].string
           /\ r = [amount |-> fnIn.arg.amount, denom |-> fnIn.arg.denom]
           /\ \A k \in 1..Len(r.amount) : r.amount[k] \in DigitChars
           /\ r.denom # <<>> => r.denom[1] \notin DigitChars

(* the coin 9u/9, whose denom holds a digit, decoded from both forms *)
C22_Witness ==
    /\ fnIn.fn = "UnmarshalJSON"
    /\ fnIn.arg = [amount |-> <<"9">>, denom |-> <<"u", "/", "9">>]
    /\ fnOut = Some([struct |-> [amount |-> <<"9">>, denom |-> <<"u", "/", "9">>],
                     string |-> [amount |-> <<"9">>, denom |-> <<"u", "/", "9">>]])

(* C23: parsing a coin string, writing the result out as amount followed by
   denom and parsing that again gives the same (amount, denom) pair. *)
C23_ParseIdempotent ==
    (fnOut # Null /\ fnIn.fn = "parseCoinString" /\ fnIn.prev # Null) =>
        fnOut = fnIn.prev

(* the string 09u has been parsed, written out again and parsed again *)
C23_Witness ==
    /\ fnIn.fn = "parseCoinString"
    /\ fnIn.prev = Some([amount |-> <<"0", "9">>, denom |-> <<"u">>])
    /\ fnOut = Some([amount |-> <<"0", "9">>, denom |-> <<"u">>])


----------------------------------------------------------------------------
(* SpecHost: isValidHost applied to one host name, a sequence of bytes. *)

MaxHostLen == 5      \* bytes of an enumerated host name

HostChars == {"a", "z", "1", ".", "-", ":", "$"}

(* a name of n bytes: the label a, a dot, and a label of z's *)
LongName(n) == [i \in 1..n |-> IF i = 1 THEN "a" ELSE IF i = 2 THEN "." ELSE "z"]

HostInputs ==
    SeqsUpTo(HostChars, MaxHostLen)
    \cup {<<"1", ".", "1", ".", "1", ".", "1">>,
          <<"1", "0", ".", "0", ".", "0", ".", "1">>,
          <<"2", "5", "6", ".", "1", ".", "1", ".", "1">>,
          <<"0", "1", ".", "1", ".", "1", ".", "1">>,
          <<"1", ":", "1", ":", "1", ":", "1", ":", "1", ":", "1", ":", "1", ":", "1">>,
          <<"l", "o", "c", "a", "l", "h", "o", "s", "t">>,
          <<"S", "U", "N", "U", "C", "U", "I", "P">>,
          <<"e", "x", "a", "m", " ", "p", "l", "e", ".", "c", "o", "m">>,
          <<"m", "y", "-", "s", "e", "r", "v", "e", "r", ".", "e", "x", ".", "c", "o", "m">>,
          LongName(253), LongName(254)}

InitHost ==
    /\ InitSupernodes
    /\ InitEnricher
    /\ fnIn \in {[fn |-> "isValidHost", arg |-> h] : h \in HostInputs}
    /\ fnOut = Null
    /\ InitHistory
    /\ InitLoops

ApplyIsValidHost ==
    /\ fnOut = Null
    /\ fnIn.fn = "isValidHost"
    /\ fnOut' = Some(isValidHost(fnIn.arg))
    /\ UNCHANGED <<svars, evars, fnIn, hvars, rvars, mvars, lvars, cvars>>

NextHost == ApplyIsValidHost

SpecHost == InitHost /\ [][NextHost]_vars

(* a fully qualified domain name as the claim describes it *)
IsFQDN(h) ==
    /\ \E i \in 1..Len(h) : h[i] = "."
    /\ \E i \in 1..Len(h) : h[i] \in Letters
    /\ Len(h) > 0 => h[1] \notin {".", "-"} /\ h[Len(h)] \notin {".", "-"}
    /\ \A i \in 1..(Len(h) - 1) : ~(h[i] = "." /\ h[i + 1] = ".")
    /\ \A i \in 1..Len(h) : h[i] \in Letters \cup DigitChars \cup {".", "-"}
    /\ Len(h) <= 253

(* C24: a host is accepted exactly when it parses as an IP literal or is a
   fully qualified domain name; a name of one label is rejected. *)
C24_HostValidation ==
    fnOut # Null =>
        /\ fnOut[1] = (ParseIP(fnIn.arg) \/ IsFQDN(fnIn.arg))
        /\ (/\ fnIn.arg # <<>>
            /\ \A i \in 1..Len(fnIn.arg) : fnIn.arg[i] \in Letters \cup DigitChars \cup {"-"})
              => fnOut[1] = FALSE

(* the two-label name a-1.z has been validated and accepted *)
C24_Witness ==
    /\ fnIn.arg = <<"a", "-", "1", ".", "z">>
    /\ fnOut = Some(TRUE)


----------------------------------------------------------------------------
(* The sentinel row and failed searches *)

(* the table holds the sentinel row of action id *)
HasSentinel(id) ==
    \E i \in RowsOfAction(id) : action_transactions[i].txHash = PlaceholderTxHash

(* C25: a step that writes the sentinel row of an action is taken only when
   the chain holds no register, finalize or approve transaction for that
   action; in particular not when the searches failed while it holds one. *)
C25_SentinelOnlyWhenChecked ==
    [][\A id \in ActionIDs :
          (~HasSentinel(id) /\ HasSentinel(id)')
             => \A ty \in TxTypes : ChainTxsOf(id, ty, chainHeight) = <<>>]_vars


(* C26: a loop body of the enricher in which a chain search fails ends the
   pass there: it writes no row and the enricher goes back to waiting for
   its next tick. *)
C26_FailedSearchAbortsPass ==
    [][\A searchOk \in SearchOutcomes \ {TxTypes}, moduleOk \in BOOLEAN,
          writeOk \in WriteOutcomes :
          ProcessAction(searchOk, moduleOk, writeOk)
             => /\ action_transactions' = action_transactions
                /\ epc' = "wait"]_vars


----------------------------------------------------------------------------
(* Register rows of processed actions *)

(* the table holds a register row, real or sentinel, of action id *)
HasRegister(id) ==
    \E i \in RowsOfAction(id) : action_transactions[i].txType = "register"

(* the loop body runs for action id with every search answered and every
   write accepted *)
ProcessedCleanly(id) ==
    /\ epc = "process"
    /\ Head(batch).ActionID = id
    /\ \E moduleOk \in BOOLEAN : ProcessAction(TxTypes, moduleOk, TxTypes)

(* once an action has a register row it keeps it and no batch holds it *)
RegisterRowExcludes ==
    [][\A id \in ActionIDs :
          HasRegister(id)
             => /\ HasRegister(id)'
                /\ \A k \in 1..Len(batch') : batch'[k].ActionID # id]_vars

(* C27 as stated: every action processed without a search error and without
   a persistence error has a register row afterwards (rows are never
   deleted, so also when the pass ends) and no later batch selects it. *)
C27_ProcessedHasRegister ==
    /\ [][\A id \in ActionIDs : ProcessedCleanly(id) => HasRegister(id)']_vars
    /\ RegisterRowExcludes

(* C27 amended: an action processed without a search error and without a
   persistence error has a register row afterwards when the chain answered
   with a register transaction or with no transaction at all, and from then
   on no batch selects it. *)
C27_RegisterUnlessSettleOnly ==
    /\ [][\A id \in ActionIDs :
             (/\ ProcessedCleanly(id)
              /\ \/ ChainTxsOf(id, "register", chainHeight) # <<>>
                 \/ \A ty \in TxTypes : ChainTxsOf(id, ty, chainHeight) = <<>>)
                => HasRegister(id)']_vars
    /\ RegisterRowExcludes

(* two undisturbed passes: action 1 got its register transaction and action 2
   the sentinel in the first one *)
C27_Witness ==
    /\ passes >= 2
    /\ ~perturbed
    /\ \E i \in 1..Len(rowsAfterFirst) :
          /\ rowsAfterFirst[i].actionID = 1
          /\ rowsAfterFirst[i].txType = "register"
          /\ rowsAfterFirst[i].txHash = "R1"
    /\ \E i \in 1..Len(rowsAfterFirst) :
          /\ rowsAfterFirst[i].actionID = 2
          /\ rowsAfterFirst[i].txHash = PlaceholderTxHash
    /\ HasRegister(1) /\ HasRegister(2)


----------------------------------------------------------------------------
(* Availability across chain syncs *)

(* the row satisfies the conditions of the status filter "available" *)
SatisfiesAvailable(row) ==
    \A c \in StatusConditions(row, "available") : c = Some(TRUE)

(* C28: a chain-sync write on an existing row leaves the row on the side of
   the "available" filter it was on: whether it satisfies the filter changes
   only with probe writes. *)
C28_SyncKeepsAvailability ==
    [][\A a \in Accounts :
          (a \in DOMAIN supernodes /\ ChainSyncWrite(a))
             => SatisfiesAvailable(supernodes'[a]) = SatisfiesAvailable(supernodes[a])]_vars


----------------------------------------------------------------------------
(* The manual run and the request that started it *)

(* C29: the end of the request that started a manual run does not cancel the
   run: a run that still has calls to make never works with a cancelled
   context. *)
C29_RunOutlivesRequest ==
    \A m \in Manual : pc[m] \notin {"none", "defer"} => CtxLive(m)


----------------------------------------------------------------------------
(* SpecEnrichFair: the pass of the enricher under a fair scheduler *)

(* a step of runActionTxEnricher inside a pass *)
EnricherStep ==
    \/ \E ok \in BOOLEAN : Quiet /\ (ok \/ ~perturbed) /\ FetchBatch(ok)
    \/ \E searchOk \in SearchOutcomes, moduleOk \in BOOLEAN, writeOk \in WriteOutcomes :
          /\ Quiet
          /\ (searchOk = TxTypes /\ moduleOk /\ writeOk = TxTypes) \/ ~perturbed
          /\ ProcessAction(searchOk, moduleOk, writeOk)

(* the enricher is inside a pass *)
InPass == epc \in {"fetch", "process"}

(* SpecEnrichFair: the goroutine of the enricher is scheduled and every
   request and statement it issues returns, with a result or with an error.
   The handlers run on goroutines of their own, so the requests they answer,
   however many, do not hold the enricher back: its step is taken if it is
   possible again and again (strong fairness), and a response that has been
   written is delivered.  EnricherStep is possible exactly in the states
   InPass /\ Quiet, which is how its strong fairness is written out. *)
SpecEnrichFair ==
    /\ SpecEnrich
    /\ (<>[]~(InPass /\ Quiet)) \/ ([]<><<EnricherStep>>_vars)
    /\ WF_vars(Deliver)

(* C30: a pass of the enricher terminates and processes each action at most
   once, whether or not the actions it processes gain a register row: the
   action the loop body takes is never below minID, the loop body moves minID
   past it, minID never goes back inside a pass, and every pass that has begun
   reaches its end. *)
C30_PassTerminates ==
    /\ [][/\ \A searchOk \in SearchOutcomes, moduleOk \in BOOLEAN, writeOk \in WriteOutcomes :
               ProcessAction(searchOk, moduleOk, writeOk)
                  => /\ Head(batch).ActionID >= minID
                     /\ minID' = Head(batch).ActionID + 1
          /\ InPass => minID' >= minID]_vars
    /\ InPass ~> (epc = "wait")

(* the first pass began with every action known and none enriched, took them
   in two batches and has ended, past the last action, with an action that
   gained no register row *)
C30_Witness ==
    /\ epc = "wait"
    /\ passes = 1
    /\ firstPassInput = Some([height |-> firstPassInput[1].height, actions |-> ActionIDs])
    /\ minID = MaxActions + 1
    /\ \E id \in ActionIDs : ~HasRegister(id)


----------------------------------------------------------------------------
(* SpecValidators: the moniker map between loopValidators, which rebuilds and
   stores it, and loopSupernodes, which looks monikers up in it.  Runner has
   no lock and no atomic for the field: the store `r.validatorMonikers =
   monikers` and the reads of getMonikerFor are plain, so once loopValidators
   has stored a map a reader on another goroutine races with that store and
   with the stores that filled the map. *)

validatorsLimit == 1     \* syncValidators' limit (200), scaled to the validators the chain has
Valopers == {"val1", "val2", "val9"}

(* the page GetValidators(ctx, next, limit) returns at tip h, and whether the
   chain names a page after it *)
ValidatorsPage(h, next) ==
    [vals |-> SubSeq(ChainValidators(h), next,
                     IF next + validatorsLimit - 1 < Len(ChainValidators(h))
                     THEN next + validatorsLimit - 1 ELSE Len(ChainValidators(h))),
     more |-> next + validatorsLimit - 1 < Len(ChainValidators(h))]

(* `monikers[v.OperatorAddress] = v.Description.Moniker` for the validators of
   a page, in order *)
RECURSIVE AddMonikers(_, _)
AddMonikers(m, vals) ==
    IF vals = <<>> THEN m
    ELSE AddMonikers([a \in DOMAIN m \cup {Head(vals).operator_address} |->
                         IF a = Head(vals).operator_address THEN Head(vals).moniker
                         ELSE m[a]],
                     Tail(vals))

(* loopValidators: the next pass begins; syncValidators makes its local map *)
ValidatorsBegin ==
    /\ pc["main"] = "serving"
    /\ building = Null
    /\ building' = Some([monikers |-> << >>, next |-> 1])
    /\ UNCHANGED <<svars, evars, fvars, hvars, lvars, cvars, rvars, prevMonikers, unsynced,
                   apage>>

(* syncValidators: one round of its loop.  A failed request returns the error
   and the field keeps the map it had; the last page is followed by the store
   of the local map into the field. *)
ValidatorsFetch(ok) ==
    /\ building # Null
    /\ IF ~ok
       THEN /\ building' = Null
            /\ UNCHANGED <<validatorMonikers, prevMonikers, unsynced>>
       ELSE LET page == ValidatorsPage(chainHeight, building[1].next)
                m == AddMonikers(building[1].monikers, page.vals)
            IN IF page.more
               THEN /\ building' = Some([monikers |-> m,
                                         next |-> building[1].next + validatorsLimit])
                    /\ UNCHANGED <<validatorMonikers, prevMonikers, unsynced>>
               ELSE /\ building' = Null
                    /\ validatorMonikers' = Some(m)
                    /\ prevMonikers' = validatorMonikers
                    /\ unsynced' = TRUE
    /\ UNCHANGED <<supernodes, syncRunning, syncMu, pc, queue, obs, httpStatus, clock,
                   chainHeight, failedWrites, lastOkVersion, lastOkObserved, evars, fvars,
                   hvars, lvars, cvars, rvars, apage>>

(* what a goroutine can find behind the field.  The map Start stored before
   it spawned the loops is seen as it is.  A map loopValidators stored is read
   in a data race: the reader may still get the previous map, and behind the
   new reference it may find any part of the entries, since nothing orders
   the stores that filled the map before its reads. *)
MapsSeen ==
    IF ~unsynced \/ validatorMonikers = Null THEN {validatorMonikers}
    ELSE {prevMonikers}
         \cup {Some([a \in D |-> validatorMonikers[1][a]]) :
                  D \in SUBSET DOMAIN validatorMonikers[1]}

(* syncSupernodes on loopSupernodes: getMonikerFor(valoper) *)
LookupMoniker(valoper) ==
    /\ pc["main"] = "serving"
    /\ \E seen \in MapsSeen :
          /\ fnIn' = Some([arg |-> valoper, seen |-> seen])
          /\ fnOut' = Some(getMonikerFor(seen, valoper))
    /\ UNCHANGED <<svars, evars, hvars, lvars, cvars, rvars, mvars>>

NextValidators ==
    \/ \E ok \in BOOLEAN : Start(ok)
    \/ ValidatorsBegin
    \/ \E ok \in BOOLEAN : ValidatorsFetch(ok)
    \/ \E valoper \in Valopers : LookupMoniker(valoper)
    \/ ChainAdvance

SpecValidators == Init /\ [][NextValidators]_vars

(* C31: a lookup made while validator syncs come and go finds behind the
   field the complete map of the last store or the complete map it replaced,
   never a part of one, and a validator sync that fails leaves the field as it
   was. *)
C31_MapSwappedWhole ==
    [][/\ \A valoper \in Valopers :
             LookupMoniker(valoper) => fnIn'[1].seen \in {validatorMonikers, prevMonikers}
       /\ ValidatorsFetch(FALSE) => validatorMonikers' = validatorMonikers]_vars


----------------------------------------------------------------------------
(* SpecActions: syncActions, the pass that copies the chain's actions into
   the actions table.  The rows here carry the columns the pass derives from
   the metadata; the enricher's view of a row (ActionRow) leaves them out. *)

MaxPage == 2             \* actions on the page GetActions returns

(* metadata as the chain serves it: text that is not base64, base64 of bytes
   that are no message, base64 of a cascade message naming a file, and the
   empty string *)
B64Invalid == "%%%"
B64NotProto == "/w=="
B64Cascade == "CgVhLnBuZw=="
MetadataStrings == {B64Invalid, B64NotProto, B64Cascade, ""}
ActionTypes == {"ACTION_TYPE_CASCADE", "ACTION_TYPE_UNSPECIFIED"}

(* base64.StdEncoding.DecodeString *)
Base64Decode(s) ==
    CASE s = B64Invalid -> [ok |-> FALSE, raw |-> Null]
      [] s = B64NotProto -> [ok |-> TRUE, raw |-> Some(<<255>>)]
      [] s = B64Cascade -> [ok |-> TRUE, raw |-> Some(<<10, 5, 97, 46, 112, 110, 103>>)]
      [] OTHER -> [ok |-> TRUE, raw |-> Some(<<>>)]

(* gogoproto.Unmarshal then json.Marshal and json.Unmarshal into a map: the
   byte 0xff opens no field; the empty message is the empty map *)
ProtoToMap(raw) ==
    CASE raw = <<255>> -> [ok |-> FALSE, m |-> Null]
      [] raw = <<>> -> [ok |-> TRUE, m |-> Some([kind |-> "object", file_name |-> Null])]
      [] OTHER -> [ok |-> TRUE, m |-> Some([kind |-> "object", file_name |-> Some("a.png")])]

(* DecodeActionMetadata: raw, decodedMap (Null = nil map), err *)
DecodeActionMetadata(actionType, metadataB64) ==
    LET b == Base64Decode(metadataB64)
    IN IF ~b.ok THEN [raw |-> Null, decoded |-> Null, err |-> TRUE]
       ELSE IF actionType \notin {"ACTION_TYPE_CASCADE", "ACTION_TYPE_SENSE"}
       THEN [raw |-> b.raw, decoded |-> Null, err |-> FALSE]
       ELSE LET u == ProtoToMap(b.raw[1])
            IN IF ~u.ok THEN [raw |-> b.raw, decoded |-> Null, err |-> TRUE]
               ELSE [raw |-> b.raw, decoded |-> u.m, err |-> FALSE]

(* toJSONB(decoded): the map arrives in an interface, which is not nil even
   for a nil map, so a nil map is marshalled to the JSON text null *)
MapToJSONB(decoded) == IF decoded = Null THEN Some(JSONNull) ELSE decoded

(* extractMimeType *)
extractMimeType(decoded) ==
    IF decoded = Null THEN "application/octet-stream"
    ELSE IF decoded[1].file_name = Null THEN "application/octet-stream"
    ELSE "image/png"

(* strconv.ParseUint(a.ActionID, 10, 64) *)
ParseUint(s) ==
    CASE s = "1" -> [ok |-> TRUE, v |-> 1]
      [] s = "2" -> [ok |-> TRUE, v |-> 2]
      [] OTHER -> [ok |-> FALSE, v |-> 0]

(* the actions the chain can list *)
ChainActionSet ==
    [ActionID : {"1", "2", "x"}, ActionType : ActionTypes, MetadataB64 : MetadataStrings]

ChainActionPages == SeqsUpTo(ChainActionSet, MaxPage)

(* the db.ActionDB record syncActions builds, as the row an insert at time
   now makes of it: the columns the enricher reads (ActionRow) and the ones
   derived from the metadata *)
ActionRec(a, now) ==
    LET d == DecodeActionMetadata(a.ActionType, a.MetadataB64)
        row == ActionRow(ParseUint(a.ActionID).v, now)
    IN [ActionID |-> row.ActionID,
        Creator |-> row.Creator,
        SupernodeAccount |-> row.SupernodeAccount,
        CreatedAt |-> row.CreatedAt,
        ActionType |-> a.ActionType,
        MetadataRaw |-> d.raw,
        MetadataJSON |-> MapToJSONB(d.decoded),
        MimeType |-> extractMimeType(d.decoded)]

(* db.UpsertAction: on conflict every column but createdAt is replaced *)
UpsertAction(tbl, rec) ==
    [id \in DOMAIN tbl \cup {rec.ActionID} |->
        IF id # rec.ActionID THEN tbl[id]
        ELSE IF id \in DOMAIN tbl THEN [rec EXCEPT !.CreatedAt = tbl[id].CreatedAt]
        ELSE rec]

(* loopActions: the next pass; GetActions returns a page or an error *)
ActionsFetch(ok, page) ==
    /\ pc["main"] = "serving"
    /\ apage = Null
    /\ apage' = IF ok /\ page # <<>> THEN Some(page) ELSE Null
    /\ UNCHANGED <<svars, evars, fvars, hvars, lvars, cvars, rvars, building, prevMonikers,
                   unsynced>>

(* faulty variant: an action whose metadata does not decode is dropped *)
ActionsUpsert_skipUndecoded(dbOk) ==
    /\ apage # Null
    /\ LET a == Head(apage[1])
           d == DecodeActionMetadata(a.ActionType, a.MetadataB64)
       IN actions' = IF ParseUint(a.ActionID).ok /\ dbOk /\ ~d.err
                     THEN UpsertAction(actions, ActionRec(a, clock))
                     ELSE actions
    /\ apage' = IF Tail(apage[1]) = <<>> THEN Null ELSE Some(Tail(apage[1]))
    /\ UNCHANGED <<svars, fvars, hvars, lvars, cvars, rvars, building, prevMonikers,
                   unsynced, action_transactions, actionModuleAddr, epc, minID, batch,
                   batchLen, passes, firstPassInput, rowsAfterFirst, perturbed, response>>

(* syncActions: the loop body for the next action of the page.  A decode
   error is logged and the record is built all the same; an id that does not
   parse skips the action; an error of UpsertAction is logged. *)
ActionsUpsert(dbOk) ==
    /\ apage # Null
    /\ LET a == Head(apage[1])
       IN actions' = IF ParseUint(a.ActionID).ok /\ dbOk
                     THEN UpsertAction(actions, ActionRec(a, clock))
                     ELSE actions
    /\ apage' = IF Tail(apage[1]) = <<>> THEN Null ELSE Some(Tail(apage[1]))
    /\ UNCHANGED <<svars, fvars, hvars, lvars, cvars, rvars, building, prevMonikers,
                   unsynced, action_transactions, actionModuleAddr, epc, minID, batch,
                   batchLen, passes, firstPassInput, rowsAfterFirst, perturbed, response>>

NextActions ==
    \/ Start(TRUE)
    \/ \E ok \in BOOLEAN, page \in ChainActionPages : ActionsFetch(ok, page)
    \/ \E dbOk \in BOOLEAN : ActionsUpsert(dbOk)

SpecActions == Init /\ [][NextActions]_vars

(* the decoded-metadata column holds nothing: SQL NULL or the JSON null *)
EmptyDecoded(col) == col = Null \/ col = Some(JSONNull)

(* the metadata of chain action a fails to decode *)
Undecodable(a) == DecodeActionMetadata(a.ActionType, a.MetadataB64).err

(* C33: when the loop body takes an action whose metadata fails to decode
   and whose write the database accepts, the action's row is in the table
   after the step with an empty decoded-metadata column, and the pass goes on
   with the rest of the page. *)
C33_UndecodableStillUpserted ==
    [][(/\ apage # Null
        /\ Undecodable(Head(apage[1]))
        /\ ParseUint(Head(apage[1]).ActionID).ok
        /\ ActionsUpsert(TRUE))
          => LET id == ParseUint(Head(apage[1]).ActionID).v
             IN /\ id \in DOMAIN actions'
                /\ actions'[id].ActionType = Head(apage[1]).ActionType
                /\ EmptyDecoded(actions'[id].MetadataJSON)
                /\ apage' = IF Tail(apage[1]) = <<>> THEN Null
                            ELSE Some(Tail(apage[1]))]_vars

(* a pass has written action 1, whose metadata is not base64, with an empty
   decoded column, and then action 2 with its decoded metadata *)
C33_Witness ==
    /\ apage = Null
    /\ DOMAIN actions = {1, 2}
    /\ actions[1].MetadataRaw = Null
    /\ actions[1].MetadataJSON = Some(JSONNull)
    /\ actions[2].MetadataJSON = Some([kind |-> "object", file_name |-> Some("a.png")])
    /\ actions[2].MimeType = "image/png"


----------------------------------------------------------------------------
(* SpecPasses: the four passes that write to the database, each run by its
   own loop goroutine, with database statements that fail. *)

(* loopProbes: the select receives the next tick and the loop body runs again *)
LoopProbesTick ==
    /\ pc["loopProbes"] = "wait"
    /\ pc' = [pc EXCEPT !["loopProbes"] = "list"]
    /\ UNCHANGED <<supernodes, validatorMonikers, syncRunning, syncMu, queue, obs,
                   httpStatus, clock, chainHeight, failedWrites, lastOkVersion,
                   lastOkObserved, evars, xvars>>

(* loopProbes inside probeSupernodes *)
LoopProbesStep ==
    \/ \E ok \in BOOLEAN : ListTargets("loopProbes", ok)
    \/ SkipTarget("loopProbes")
    \/ \E o \in BOOLEAN, st \in {UnavailableStatus, AvailableStatus("v1")} :
          ProbeTarget("loopProbes", o, o, st)
    \/ \E dbOk \in BOOLEAN : WriteProbe("loopProbes", dbOk)

(* the page of actions the chain lists in this specification *)
PassPage ==
    <<[ActionID |-> "1", ActionType |-> "ACTION_TYPE_CASCADE", MetadataB64 |-> B64Cascade],
      [ActionID |-> "2", ActionType |-> "ACTION_TYPE_CASCADE", MetadataB64 |-> B64Cascade]>>

(* the loops that are between two passes *)
SupernodesAtRest == pc["loopSupernodes"] = "wait"
ProbesAtRest == pc["loopProbes"] = "wait"
ActionsAtRest == apage = Null
EnricherAtRest == epc \in {"sleep", "wait"}

(* the passes are taken one after the other: a loop begins its pass while
   the other loops are between two of theirs, loopSupernodes first *)
NextPasses ==
    \/ Start(TRUE)
    \/ ProbesAtRest /\ ActionsAtRest /\ EnricherAtRest /\ LoopSupernodesTick
    \/ LoopSupernodesStep
    \/ SupernodesAtRest /\ ActionsAtRest /\ EnricherAtRest /\ LoopProbesTick
    \/ SupernodesAtRest /\ LoopProbesStep
    \/ \E ok \in BOOLEAN :
          /\ SupernodesAtRest /\ ProbesAtRest /\ EnricherAtRest
          /\ ActionsFetch(ok, PassPage)
    \/ \E dbOk \in BOOLEAN : ActionsUpsert(dbOk)
    \/ SupernodesAtRest /\ ProbesAtRest /\ ActionsAtRest /\ EnricherWake
    \/ \E ok \in BOOLEAN : FetchBatch(ok)
    \/ \E writeOk \in WriteOutcomes : ProcessAction(TxTypes, TRUE, writeOk)

SpecPasses == Init /\ [][NextPasses]_vars

(* where the loop goroutines are once Start has spawned them *)
LoopsAlive ==
    pc["main"] = "serving" =>
        /\ pc["loopSupernodes"] \in {"fetch", "write", "wait"}
        /\ pc["loopProbes"] \in {"list", "dial", "update", "wait"}
        /\ epc \in {"sleep", "wait", "fetch", "process"}

(* C32: a loop body whose database write fails does what it does when the
   write succeeds, the table aside: it takes the record off the work of the
   pass and goes on with the next one, ending the pass only when none is
   left; the writes that do succeed in the same body are made; and the loop
   goroutines never leave their loops. *)
C32_WriteErrorDoesNotStopPass ==
    [][/\ \A dbOk \in BOOLEAN :
            UpsertNext("loopSupernodes", dbOk) =>
               /\ queue'["loopSupernodes"] = Tail(queue["loopSupernodes"])
               /\ pc'["loopSupernodes"] =
                    IF Tail(queue["loopSupernodes"]) = <<>> THEN "wait" ELSE "write"
               /\ ~dbOk => supernodes' = supernodes
       /\ \A dbOk \in BOOLEAN :
            WriteProbe("loopProbes", dbOk) =>
               /\ queue'["loopProbes"] = Tail(queue["loopProbes"])
               /\ pc'["loopProbes"] =
                    IF Tail(queue["loopProbes"]) = <<>> THEN "wait" ELSE "dial"
               /\ ~dbOk => supernodes' = supernodes
       /\ \A dbOk \in BOOLEAN :
            ActionsUpsert(dbOk) =>
               /\ apage' = IF Tail(apage[1]) = <<>> THEN Null ELSE Some(Tail(apage[1]))
               /\ ~dbOk => actions' = actions
       /\ \A writeOk \in WriteOutcomes :
            ProcessAction(TxTypes, TRUE, writeOk) =>
               /\ batch' = Tail(batch)
               /\ epc' = IF Tail(batch) # <<>> THEN "process"
                         ELSE IF batchLen < batchSize THEN "wait" ELSE "fetch"
               /\ LET txs == GetActionTransactions(Head(batch), chainHeight,
                                                   actionModuleAddr', TxTypes)
                  IN \A i \in 1..Len(txs) :
                        txs[i].TxType \in writeOk =>
                           \E j \in 1..Len(action_transactions') :
                              /\ action_transactions'[j].actionID = txs[i].ActionID
                              /\ action_transactions'[j].txType = txs[i].TxType
                              /\ action_transactions'[j].txHash = txs[i].TxHash
       /\ LoopsAlive'
      ]_vars


(* passes have ended in which the first write failed and the second was
   made: supernode sn2 and action 2 are stored, sn1 and action 1 are not *)
C32_Witness ==
    /\ SupernodesAtRest /\ ActionsAtRest
    /\ DOMAIN supernodes = {"sn2"}
    /\ DOMAIN actions = {2}


----------------------------------------------------------------------------
(* SpecReject: loopProbes over rows whose endpoint loopSupernodes stores
   from a chain on which supernode sn1 registers any of Endpoints. *)

(* syncSupernodes: GetSupernodes returns a page on which sn1's only
   registered address is e *)
FetchEndpoint(e) ==
    /\ pc["loopSupernodes"] = "fetch"
    /\ e \in Endpoints
    /\ queue' = [queue EXCEPT !["loopSupernodes"] =
                    <<[ChainSupernode("sn1", chainHeight) EXCEPT
                         !.prev_ip_addresses = <<[address |-> e, height |-> "5"]>>],
                      ChainSupernode("sn2", chainHeight)>>]
    /\ pc' = [pc EXCEPT !["loopSupernodes"] = "write"]
    /\ UNCHANGED <<supernodes, validatorMonikers, syncRunning, syncMu, obs, httpStatus,
                   clock, chainHeight, failedWrites, lastOkVersion, lastOkObserved, evars, xvars>>

NextReject ==
    \/ Start(TRUE)
    \/ \E e \in Endpoints : FetchEndpoint(e)
    \/ UpsertNext("loopSupernodes", TRUE)
    \/ LoopSupernodesTick
    \/ LoopProbesTick
    \/ LoopProbesStep

SpecReject == Init /\ [][NextReject]_vars

(* the endpoint of a target is one the claim names: empty, not to be split
   into host and port, with a port that is zero or no number, or with a host
   that is neither an IP address nor a hostname *)
Malformed(ip) ==
    \/ TrimSpace(ip) = ""
    \/ ip \in {"10.0.0.1"}
    \/ ip \in {"10.0.0.1:0", "10.0.0.1:x"}
    \/ ip \in {"bad_host.io:4444", "localhost:4444"}

(* C34: when loopProbes stands before a target with a malformed endpoint,
   the step it takes dials nothing and writes nothing: the table and the
   assembled probe stay as they are, the target leaves the pass and the pass
   goes on with the next target, or ends if there is none. *)
C34_MalformedTargetSkipped ==
    [][(/\ pc["loopProbes"] = "dial"
        /\ Malformed(Head(queue["loopProbes"]).IPAddress)
        /\ <<pc["loopProbes"], queue["loopProbes"], obs["loopProbes"]>>'
             # <<pc["loopProbes"], queue["loopProbes"], obs["loopProbes"]>>)
          => /\ supernodes' = supernodes
             /\ obs' = obs
             /\ queue'["loopProbes"] = Tail(queue["loopProbes"])
             /\ pc'["loopProbes"] =
                  IF Tail(queue["loopProbes"]) = <<>> THEN "wait" ELSE "dial"]_vars

(* sn1, probed without success while its endpoint was good, has since
   registered a port that is no number; the pass that listed it with that
   endpoint has gone past it to sn2 and its probe columns are as they were *)
C34_Witness ==
    /\ pc["loopProbes"] = "dial"
    /\ Len(queue["loopProbes"]) = 1
    /\ Head(queue["loopProbes"]).SupernodeAccount = "sn2"
    /\ pc["loopSupernodes"] = "wait"
    /\ "sn1" \in DOMAIN supernodes
    /\ supernodes["sn1"].ipAddress = Some("10.0.0.1:x")
    /\ supernodes["sn1"].failedProbeCounter = 1
    /\ supernodes["sn1"].lastStatusCheck # Null


----------------------------------------------------------------------------
(* SpecFallback: one call of UpdateSupernodeProbeData against a database
   whose supernodes table has, or does not yet have, the three columns of the
   probe bookkeeping, and whose statements can fail for other reasons. *)

(* The phrases the code looks for in the text of an error *)
ErrPhrases == {"lastSuccessfulProbe", "failedProbeCounter", "lastKnownActualVersion",
               "column", "does not exist", "unknown"}

(* PostgreSQL's undefined_column error for column c:
   column "c" of relation "supernodes" does not exist (SQLSTATE 42703) *)
UndefinedColumn(c) == [code |-> "42703", has |-> {c, "column", "does not exist"}]

(* errors of other kinds, by SQLSTATE, with the phrases of ErrPhrases their
   text holds: relation "supernodes" does not exist; value too long for type
   character varying(255); column "metricsReport" is of type jsonb but
   expression is of type text; a connection that is lost *)
OtherErrors ==
    {[code |-> "42P01", has |-> {"does not exist"}],
     [code |-> "22001", has |-> {}],
     [code |-> "42804", has |-> {"column"}],
     [code |-> "08006", has |-> {}]}

(* strings.Contains(err.Error(), phrase) *)
Contains(err, phrase) == phrase \in err.has

(* faulty variant: "does not exist" alone is taken for a missing column *)
IsMissingColumnError_anyNotExist(err) ==
    \/ Contains(err, "lastSuccessfulProbe")
    \/ Contains(err, "failedProbeCounter")
    \/ Contains(err, "lastKnownActualVersion")
    \/ Contains(err, "does not exist") \/ Contains(err, "unknown")

(* the condition under which UpdateSupernodeProbeData falls back *)
IsMissingColumnError(err) ==
    \/ Contains(err, "lastSuccessfulProbe")
    \/ Contains(err, "failedProbeCounter")
    \/ Contains(err, "lastKnownActualVersion")
    \/ /\ Contains(err, "column")
       /\ Contains(err, "does not exist") \/ Contains(err, "unknown")

(* pool.Exec of the full UPDATE: the injected fault if there is one, the
   undefined_column error of the first bookkeeping column the statement
   names if the table has none of them, else the update is made *)
ExecFull(row, u, migrated, fault) ==
    IF fault # Null THEN [row |-> row, err |-> fault]
    ELSE IF ~migrated
         THEN [row |-> row,
               err |-> Some(UndefinedColumn(IF u.IsStatusAPIAvailable
                                            THEN "lastSuccessfulProbe"
                                            ELSE "failedProbeCounter"))]
    ELSE [row |-> IF u.IsStatusAPIAvailable THEN ProbeSuccessUpdate(row, u)
                  ELSE ProbeFailureUpdate(row, u),
          err |-> Null]

(* pool.Exec of sqlFallback, which names none of the bookkeeping columns *)
ExecFallback(row, u, fault) ==
    IF fault # Null THEN [row |-> row, err |-> fault]
    ELSE [row |-> ProbeMetricsUpdate(row, u), err |-> Null]

(* UpdateSupernodeProbeData on the row of u's account: the row it leaves,
   the error it returns and the statements it executed *)
UpdateWithFallback(row, u, migrated, fault1, fault2) ==
    LET first == ExecFull(row, u, migrated, fault1)
    IN IF first.err # Null /\ IsMissingColumnError(first.err[1])
       THEN LET second == ExecFallback(row, u, fault2)
            IN [row |-> second.row, err |-> second.err, execs |-> <<"full", "reduced">>]
       ELSE [row |-> first.row, err |-> first.err, execs |-> <<"full">>]

(* the rows the call finds: as inserted, and after a successful probe *)
FallbackRows ==
    LET fresh == InsertedRow(SupernodeRec(ChainSupernode("sn1", 0), Null))
        t == [SupernodeAccount |-> "sn1", IPAddress |-> "10.0.0.1:4444", P2PPort |-> 4445]
    IN {fresh, ProbeSuccessUpdate(fresh, ProbeUpdate(t, TRUE, TRUE, AvailableStatus("v1"), 0))}

FallbackInputs ==
    [fn : {"UpdateSupernodeProbeData"},
     row : FallbackRows,
     u : {ProbeUpdate([SupernodeAccount |-> "sn1", IPAddress |-> "10.0.0.1:4444",
                       P2PPort |-> 4445], o, o, st, 1) :
             o \in BOOLEAN, st \in {UnavailableStatus, AvailableStatus("v2")}},
     migrated : BOOLEAN,
     fault1 : {Null} \cup {Some(e) : e \in OtherErrors},
     fault2 : {Null} \cup {Some(e) : e \in OtherErrors}]

InitFallback ==
    /\ InitSupernodes
    /\ InitEnricher
    /\ fnIn \in FallbackInputs
    /\ fnOut = Null
    /\ InitHistory
    /\ InitLoops

ApplyUpdateWithFallback ==
    /\ fnOut = Null
    /\ fnIn.fn = "UpdateSupernodeProbeData"
    /\ fnOut' = Some(UpdateWithFallback(fnIn.row, fnIn.u, fnIn.migrated,
                                        fnIn.fault1, fnIn.fault2))
    /\ UNCHANGED <<svars, evars, fnIn, hvars, rvars, mvars, lvars, cvars>>

NextFallback == ApplyUpdateWithFallback

SpecFallback == InitFallback /\ [][NextFallback]_vars

(* the error the full UPDATE meets in the call fnIn describes *)
FirstError == ExecFull(fnIn.row, fnIn.u, fnIn.migrated, fnIn.fault1).err

(* C35: when the full UPDATE fails with an undefined-column error, the
   reduced UPDATE is executed once after it, its error or success is what the
   call returns, and on success the row has the shared columns written and
   lastSuccessfulProbe, failedProbeCounter and lastKnownActualVersion as they
   were; when the full UPDATE fails with any other error that error is
   returned, nothing else is executed and the row is as it was. *)
C35_FallbackOnMissingColumn ==
    fnOut # Null =>
        /\ (FirstError # Null /\ FirstError[1].code = "42703") =>
              /\ fnOut[1].execs = <<"full", "reduced">>
              /\ fnOut[1].err = fnIn.fault2
              /\ fnIn.fault2 = Null =>
                    /\ fnOut[1].row = ProbeMetricsUpdate(fnIn.row, fnIn.u)
                    /\ \A c \in {"lastSuccessfulProbe", "failedProbeCounter",
                                 "lastKnownActualVersion"} :
                          fnOut[1].row[c] = fnIn.row[c]
              /\ fnIn.fault2 # Null => fnOut[1].row = fnIn.row
        /\ (FirstError # Null /\ FirstError[1].code # "42703") =>
              /\ fnOut[1].execs = <<"full">>
              /\ fnOut[1].err = FirstError
              /\ fnOut[1].row = fnIn.row
        /\ FirstError = Null => fnOut[1].execs = <<"full">> /\ fnOut[1].err = Null

(* a successful probe met a table without the bookkeeping columns: the
   reduced UPDATE followed the full one and stored the version *)
C35_Witness ==
    /\ fnOut # Null
    /\ fnIn.fn = "UpdateSupernodeProbeData"
    /\ ~fnIn.migrated /\ fnIn.fault1 = Null /\ fnIn.fault2 = Null
    /\ fnIn.u.IsStatusAPIAvailable
    /\ fnOut[1].execs = <<"full", "reduced">>
    /\ fnOut[1].err = Null
    /\ fnOut[1].row.actualVersion = Some("v2")
    /\ fnOut[1].row.lastKnownActualVersion = fnIn.row.lastKnownActualVersion


----------------------------------------------------------------------------
(* The aggregates of the read path that speak of available supernodes *)

(* NULLIF(column, text) on a nullable text column *)
ColNullIf(col, text) == IF col = Null THEN Null ELSE NULLIF(col[1], text)

(* COALESCE(NULLIF("lastKnownActualVersion", ''), NULLIF("actualVersion", ''),
   'unknown') *)
MatrixVersion(row) ==
    COALESCE(ColNullIf(row.lastKnownActualVersion, ""),
             COALESCE(ColNullIf(row.actualVersion, ""), Some("unknown")))[1]

(* ListVersionMatrix: for every version other than 'unknown', the count of
   its rows and the two counts with a FILTER *)
ListVersionMatrix(tbl) ==
    LET counted == {a \in DOMAIN tbl : MatrixVersion(tbl[a]) # "unknown"}
    IN [v \in {MatrixVersion(tbl[a]) : a \in counted} |->
          LET grp == {a \in counted : MatrixVersion(tbl[a]) = v}
          IN [Total |-> Cardinality(grp),
              Available |-> Cardinality({a \in grp : tbl[a].isStatusApiAvailable = TRUE}),
              Unavailable |-> Cardinality({a \in grp : tbl[a].isStatusApiAvailable = FALSE})]]

(* the rows the WHERE clause of GetAggregatedHardwareStats keeps *)
HardwareStatsRows(tbl) ==
    {a \in DOMAIN tbl :
        /\ tbl[a].isStatusApiAvailable = TRUE
        /\ SqlEq(PortsText(tbl[a], "port1"), "true") = Some(TRUE)
        /\ SqlEq(PortsText(tbl[a], "p2p"), "true") = Some(TRUE)
        /\ tbl[a].currentState # "SUPERNODE_STATE_STOPPED"}

RECURSIVE SumColumn(_, _, _)
(* SUM(column) over the rows of S; NULLs are left out *)
SumColumn(tbl, S, column) ==
    IF S = {} THEN 0
    ELSE LET a == CHOOSE x \in S : TRUE
         IN (IF tbl[a][column] = Null THEN 0 ELSE tbl[a][column][1])
            + SumColumn(tbl, S \ {a}, column)

(* GetAggregatedHardwareStats *)
GetAggregatedHardwareStats(tbl) ==
    [TotalCPUCores |-> SumColumn(tbl, HardwareStatsRows(tbl), "cpuCores"),
     TotalMemoryGb |-> SumColumn(tbl, HardwareStatsRows(tbl), "memoryTotalGb"),
     TotalStorageBytes |-> SumColumn(tbl, HardwareStatsRows(tbl), "storageTotalBytes"),
     UsedStorageBytes |-> SumColumn(tbl, HardwareStatsRows(tbl), "storageUsedBytes"),
     AvailableSupernodes |-> Cardinality(HardwareStatsRows(tbl))]

(* the rows that satisfy the tri-port rule *)
TriPort(tbl) == {a \in DOMAIN tbl : StoredProbeAllOpen(tbl[a])}

(* C36: at every moment the "available" list, the hardware aggregates and
   the version matrix speak of the same rows: the list returns the rows of
   the tri-port rule, the aggregates count and sum exactly those rows, and
   for every version the matrix counts as available the rows of that version
   that satisfy the rule and as unavailable the ones that do not. *)
C36_ReadPathsUseTriPortRule ==
    /\ LET f == [Status |-> "available", MinFailed |-> 0, Limit |-> Cardinality(Accounts)]
           got == ListSupernodeMetricsFiltered(supernodes, f).accounts
       IN {got[k] : k \in 1..Len(got)} = TriPort(supernodes)
    /\ GetAggregatedHardwareStats(supernodes).AvailableSupernodes
          = Cardinality(TriPort(supernodes))
    /\ GetAggregatedHardwareStats(supernodes).TotalCPUCores
          = SumColumn(supernodes, TriPort(supernodes), "cpuCores")
    /\ \A v \in DOMAIN ListVersionMatrix(supernodes) :
          LET grp == {a \in DOMAIN supernodes : MatrixVersion(supernodes[a]) = v}
          IN /\ ListVersionMatrix(supernodes)[v].Available
                  = Cardinality(grp \cap TriPort(supernodes))
             /\ ListVersionMatrix(supernodes)[v].Unavailable
                  = Cardinality(grp \ TriPort(supernodes))


----------------------------------------------------------------------------
(* The action statistics over a time window *)

(* the rows of FROM actions a INNER JOIN action_transactions at ON
   a."actionID" = at."actionID" AND at."txType" = 'register' that the WHERE
   clause keeps for the window from..to (Null: no bound) *)
StatsJoinRows(acts, tbl, from, to) ==
    {i \in 1..Len(tbl) :
        /\ tbl[i].actionID \in DOMAIN acts
        /\ tbl[i].txType = "register"
        /\ from # Null => tbl[i].blockTime >= from[1]
        /\ to # Null => tbl[i].blockTime <= to[1]}

(* GetActionStatsExtended: Total, the sum of the counts of the state query;
   the join is made only when a bound is given *)
GetActionStatsExtended(acts, tbl, from, to) ==
    IF from # Null \/ to # Null
    THEN [Total |-> Cardinality(StatsJoinRows(acts, tbl, from, to))]
    ELSE [Total |-> Cardinality(DOMAIN acts)]

(* the actions with a register transaction found on the chain whose block
   time lies in from..to *)
RegisteredInWindow(from, to) ==
    {id \in DOMAIN actions :
        \E i \in 1..Len(action_transactions) :
            /\ action_transactions[i].actionID = id
            /\ action_transactions[i].txType = "register"
            /\ ~isPlaceholderTransaction(action_transactions[i])
            /\ action_transactions[i].blockTime >= from
            /\ action_transactions[i].blockTime <= to}

(* the block times and creation times the tables can hold *)
StatTimes ==
    {action_transactions[i].blockTime : i \in 1..Len(action_transactions)}
      \cup (0..MaxClock)

(* C37: for every window, the total of the time-windowed action statistics
   is the number of actions that have a register transaction found on the
   chain with its block time inside the window; placeholder rows count for
   nothing. *)
C37_StatsIgnorePlaceholders ==
    \A from \in StatTimes, to \in StatTimes :
        GetActionStatsExtended(actions, action_transactions, Some(from), Some(to)).Total
            = Cardinality(RegisteredInWindow(from, to))


----------------------------------------------------------------------------
(* The two status filters of the list *)

(* the row satisfies the condition of the status filter "unavailable" *)
SatisfiesUnavailable(row) ==
    \A c \in StatusConditions(row, "unavailable") : c = Some(TRUE)

(* C38: every stored row is selected by exactly one of the status filters
   "available" and "unavailable". *)
C38_FiltersPartitionRows ==
    \A a \in DOMAIN supernodes :
        SatisfiesAvailable(supernodes[a]) # SatisfiesUnavailable(supernodes[a])


----------------------------------------------------------------------------
(* What a failed probe write leaves of the last successful one *)

(* the columns of the status summary, with the zero value a probe writes to
   each when the status API gives no answer *)
SummaryZero ==
    [cpuUsagePercent |-> Some(0), cpuCores |-> Some(0), memoryTotalGb |-> Some(0),
     memoryUsedGb |-> Some(0), memoryUsagePercent |-> Some(0),
     storageTotalBytes |-> Some(0), storageUsedBytes |-> Some(0),
     storageUsagePercent |-> Some(0), hardwareSummary |-> Some(""),
     peersCount |-> Some(0), uptimeSeconds |-> Some(0), rank |-> Some(0)]

KeptByFailure == {"actualVersion", "lastSuccessfulProbe", "lastKnownActualVersion"}

(* C39: a failed probe write on a row sets every column of the status
   summary to its zero value, leaves actualVersion, lastSuccessfulProbe and
   lastKnownActualVersion as they were, and writes each of the other
   probe-owned columns: the availability flag is cleared, the failed-probe
   counter is one more, the last status check is set and the report is that
   of the failed probe. *)
C39_FailedProbeZeroesSummary ==
    [][\A a \in DOMAIN supernodes :
          FailedProbeWrite(a) =>
             /\ \A c \in DOMAIN SummaryZero : supernodes'[a][c] = SummaryZero[c]
             /\ \A c \in KeptByFailure : supernodes'[a][c] = supernodes[a][c]
             /\ supernodes'[a].isStatusApiAvailable = FALSE
             /\ supernodes'[a].failedProbeCounter = supernodes[a].failedProbeCounter + 1
             /\ supernodes'[a].lastStatusCheck # Null
             /\ supernodes'[a].metricsReport # Null
             /\ supernodes'[a].metricsReport[1].status = UnavailableStatus
             /\ ProbeColumns = DOMAIN SummaryZero \cup KeptByFailure
                                 \cup {"isStatusApiAvailable", "failedProbeCounter",
                                       "lastStatusCheck", "metricsReport"}]_vars

(* a row a successful probe filled with version v1 and four cores, after a
   failed probe: the cores read zero, the version and the time of the
   successful probe are still there *)
C39_Witness ==
    \E a \in DOMAIN supernodes :
        /\ supernodes[a].lastSuccessfulProbe # Null
        /\ supernodes[a].failedProbeCounter = 1
        /\ supernodes[a].isStatusApiAvailable = FALSE
        /\ supernodes[a].cpuCores = Some(0)
        /\ supernodes[a].hardwareSummary = Some("")
        /\ supernodes[a].actualVersion = Some("v1")
        /\ supernodes[a].lastKnownActualVersion = Some("v1")

====
